---- MODULE Spec2Model ----
(***************************************************************************)
(* Voice-Agent call-session core: the in-memory SessionManager, the        *)
(* telephony webhook handlers that drive it, and the Deepgram TTS audio    *)
(* cache.  Handlers are FastAPI `async def` coroutines: they run on one    *)
(* event loop, so a handler is atomic between two suspending awaits and    *)
(* different handlers interleave only at those awaits.                     *)
(***************************************************************************)
EXTENDS Integers, Sequences, FiniteSets, TLC

(* ------------------------------ bounds --------------------------------- *)
MaxTime == 2
MaxLog == 1
CallIds == {"c1", "c2"}
LiveIds == {"c1"}
Contents == {<<"h", "i">>}
Roles == {"user"}
StatusInputs == {"ringing", "in_progress", "completed", "failed"}
MaxTurns == 3
MaxRows == 1
MaxDirectives == 2
RawTexts == {<<"O", "T", "P">>, <<"O", " ", "T", " ", "P">>, <<" ">>}
Languages == {"en-IN", "en-US", "hi-IN"}
Speeches == {<<>>, <<"y", "e", "s">>}
DigitInputs == {<<>>, <<"1">>}
Replies == {<<"o", "k">>, <<>>}
PlatformStatuses == {"completed", "ringing", "bogus"}
\* Arguments of the builder calls: plain text, text with markup characters,
\* text with a form feed; a URL with a query string.
BuilderTexts == {<<"H", "e", "l", "l", "o">>, <<"a", "<", "b", "&", "c">>,
                 <<"x", "\f", "y">>}
\* Bytes a synthesized file may hold: below, inside and above the telephony
\* window; one second of audio.
AudioSizes == {799, 800, 2400001}
OneSecond == {8000}
BuilderUrls == {<<"/", "a", "?", "x", "=", "\"", "1", "\"", "&", "y">>}
CreateKinds == {<<"inbound", "general">>, <<"outbound", "notification">>}

(* ------------------- storage/models.py enumerations -------------------- *)
INITIATED == "initiated"
RINGING == "ringing"
IN_PROGRESS == "in_progress"
COMPLETED == "completed"
FAILED == "failed"
NO_ANSWER == "no_answer"
BUSY == "busy"
CallStatus == {INITIATED, RINGING, IN_PROGRESS, COMPLETED, FAILED, NO_ANSWER, BUSY}
TerminalStatuses == {COMPLETED, FAILED, NO_ANSWER, BUSY}

INBOUND == "inbound"
OUTBOUND == "outbound"
CallDirection == {INBOUND, OUTBOUND}

GENERAL == "general"
NOTIFICATION == "notification"
MARKETING == "marketing"
CUSTOMER_SERVICE == "customer_service"
CallType == {CUSTOMER_SERVICE, NOTIFICATION, MARKETING, GENERAL}

\* Optional[datetime]: None is 0, a datetime is a reading of the clock >= 1.
None == 0
\* Optional[Dict] payloads of CallSession: absent or present.
NoMeta == "None"
HasMeta == "set"

VARIABLES
    sessions,   \* SessionManager._sessions: call id -> CallSession
    returned,   \* value returned by the last direct SessionManager call: {} is None
    called,     \* that call: its name, its call id, whether the id was stored
    now,        \* datetime.utcnow()
    cache,      \* files present in audio_cache/: the set of their cache keys
    file_bytes, \* cache key -> number of audio bytes in that file
    sink,       \* rows csv_storage has appended to marketing_calls.csv
    h,          \* request being handled by each worker coroutine
    snapshot,   \* the dict a caller got from get_active_sessions()
    builder,    \* children of the root of a VobizXMLResponse under construction
    built       \* what the last build() of that builder returned

vars == <<sessions, returned, called, now, cache, file_bytes, sink, h,
          snapshot, builder, built>>

(* ------------------------- storage/models.py --------------------------- *)
\* CallSession(...) as constructed by create_session: every field the
\* constructor is not given takes its declared default.
CallSession(call_id, direction, call_type, status) ==
    [call_id |-> call_id,
     direction |-> direction,
     call_type |-> call_type,
     status |-> status,
     answered_at |-> None,
     ended_at |-> None,
     conversation_history |-> <<>>,
     campaign_metadata |-> NoMeta,
     notification_metadata |-> NoMeta]

(* -------------------- telephony/session_manager.py --------------------- *)
\* create_session written as setdefault: a stored session is kept.
create_session_keep(S, call_id, direction, call_type) ==
    IF call_id \in DOMAIN S THEN S
    ELSE [x \in (DOMAIN S) \cup {call_id} |->
            IF x = call_id
            THEN CallSession(call_id, direction, call_type, INITIATED)
            ELSE S[x]]

\* self._sessions[call_id] = session
create_session(S, call_id, direction, call_type) ==
    [x \in (DOMAIN S) \cup {call_id} |->
        IF x = call_id
        THEN CallSession(call_id, direction, call_type, INITIATED)
        ELSE S[x]]

\* self._sessions.get(call_id)
get_session(S, call_id) ==
    IF call_id \in DOMAIN S THEN {S[call_id]} ELSE {}

\* stamp_status with the `not session.answered_at` test dropped.
stamp_status_restamp(s, status, t) ==
    IF status = IN_PROGRESS
    THEN [s EXCEPT !.status = status, !.answered_at = t]
    ELSE IF status \in TerminalStatuses
    THEN [s EXCEPT !.status = status, !.ended_at = t]
    ELSE [s EXCEPT !.status = status]

\* The body of `if session:` in update_status, on one session.
stamp_status(s, status, t) ==
    IF status = IN_PROGRESS /\ s.answered_at = None
    THEN [s EXCEPT !.status = status, !.answered_at = t]
    ELSE IF status \in TerminalStatuses
    THEN [s EXCEPT !.status = status, !.ended_at = t]
    ELSE [s EXCEPT !.status = status]

\* update_status that stores a session under an id it does not find.
update_status_upsert(S, call_id, status, t) ==
    LET T == IF call_id \in DOMAIN S THEN S
             ELSE create_session(S, call_id, INBOUND, GENERAL)
    IN  [T EXCEPT ![call_id] = stamp_status(T[call_id], status, t)]

\* session = self._sessions.get(call_id); if session: ...
update_status(S, call_id, status, t) ==
    IF call_id \in DOMAIN S
    THEN [S EXCEPT ![call_id] = stamp_status(S[call_id], status, t)]
    ELSE S

\* The turn assigned as the whole history instead of appended to it.
append_turn_overwrite(history, turn) == <<turn>>

\* session.conversation_history.append(turn)
append_turn(history, turn) == Append(history, turn)

\* add_conversation_turn recording the caller's turns only.
add_conversation_turn_user_only(S, call_id, role, content, input_type) ==
    IF call_id \in DOMAIN S /\ role = "user"
    THEN [S EXCEPT ![call_id].conversation_history =
            append_turn(@, [role |-> role, content |-> content,
                            input_type |-> input_type])]
    ELSE S

add_conversation_turn(S, call_id, role, content, input_type) ==
    IF call_id \in DOMAIN S
    THEN [S EXCEPT ![call_id].conversation_history =
            append_turn(@, [role |-> role, content |-> content,
                            input_type |-> input_type])]
    ELSE S

\* self._sessions.pop(call_id, None)
end_session(S, call_id) ==
    [x \in (DOMAIN S) \ {call_id} |-> S[x]]

\* The session end_session returns: stamped unless ended_at is already set.
ended_session(S, call_id, t) ==
    IF call_id \notin DOMAIN S THEN {}
    ELSE IF S[call_id].ended_at = None
    THEN {[S[call_id] EXCEPT !.ended_at = t, !.status = COMPLETED]}
    ELSE {S[call_id]}

\* get_active_sessions returning the store's own dict instead of a copy.
get_active_sessions_alias(S) == [shared |-> TRUE, keys |-> DOMAIN S]

\* self._sessions.copy(): a new dict with the keys of the store.  `shared`
\* tells whether the returned dict is the very dict the store holds.
get_active_sessions(S) == [shared |-> FALSE, keys |-> DOMAIN S]

\* What a holder of the returned dict sees once the store's keys are those
\* of S: a copy keeps its own keys.
seen_through(snap, S) ==
    IF snap.shared THEN [snap EXCEPT !.keys = DOMAIN S] ELSE snap

(* --------------------------- speech/tts.py ----------------------------- *)
\* Texts are sequences of one-character strings; "<rupee>" stands for the
\* rupee sign.
ENGLISH_NEUTRAL == "aura-asteria-en"
ENGLISH_WARM == "aura-athena-en"
ENGLISH_PROFESSIONAL == "aura-luna-en"

\* TTSVoiceConfig.get_voice_for_language: voice_map.get(language, neutral)
get_voice_for_language(language) ==
    CASE language = "en-IN" -> ENGLISH_NEUTRAL
      [] language = "en-US" -> ENGLISH_PROFESSIONAL
      [] language = "en-GB" -> ENGLISH_WARM
      [] OTHER -> ENGLISH_NEUTRAL

\* str.strip()
RECURSIVE lstrip(_)
lstrip(s) == IF s # <<>> /\ Head(s) = " " THEN lstrip(Tail(s)) ELSE s
RECURSIVE rstrip(_)
rstrip(s) ==
    IF s # <<>> /\ s[Len(s)] = " " THEN rstrip(SubSeq(s, 1, Len(s) - 1)) ELSE s
strip(s) == rstrip(lstrip(s))

\* str.replace(old, new, 1): the first occurrence only.
replace_first(s, old, new) ==
    IF \E i \in 1..(Len(s) - Len(old) + 1) : SubSeq(s, i, i + Len(old) - 1) = old
    THEN LET i == CHOOSE i \in 1..(Len(s) - Len(old) + 1) :
                     /\ SubSeq(s, i, i + Len(old) - 1) = old
                     /\ \A j \in 1..(i - 1) : SubSeq(s, j, j + Len(old) - 1) # old
         IN  SubSeq(s, 1, i - 1) \o new \o SubSeq(s, i + Len(old), Len(s))
    ELSE s

\* str.replace(old, new): every non-overlapping occurrence, left to right
RECURSIVE replace(_, _, _)
replace(s, old, new) ==
    IF Len(s) < Len(old) THEN s
    ELSE IF SubSeq(s, 1, Len(old)) = old
    THEN new \o replace(SubSeq(s, Len(old) + 1, Len(s)), old, new)
    ELSE <<Head(s)>> \o replace(Tail(s), old, new)

\* The replacements dict of _sanitize_text_for_tts, in insertion order.
replacements ==
    << <<<<"O", "T", "P">>, <<"O", " ", "T", " ", "P">>>>,
       <<<<"K", "Y", "C">>, <<"K", " ", "Y", " ", "C">>>>,
       <<<<"P", "A", "N">>, <<"P", " ", "A", " ", "N">>>>,
       <<<<"G", "S", "T">>, <<"G", " ", "S", " ", "T">>>>,
       <<<<"U", "P", "I">>, <<"U", " ", "P", " ", "I">>>>,
       <<<<"N", "E", "F", "T">>, <<"N", " ", "E", " ", "F", " ", "T">>>>,
       <<<<"R", "T", "G", "S">>, <<"R", " ", "T", " ", "G", " ", "S">>>>,
       <<<<"I", "F", "S", "C">>, <<"I", " ", "F", " ", "S", " ", "C">>>>,
       <<<<"R", "s", ".">>, <<"R", "u", "p", "e", "e", "s">>>>,
       <<<<"<rupee>">>, <<"R", "u", "p", "e", "e", "s">>>>,
       <<<<"&">>, <<"a", "n", "d">>>> >>

RECURSIVE apply_replacements(_, _)
apply_replacements(s, i) ==
    IF i > Len(replacements) THEN s
    ELSE apply_replacements(replace(s, replacements[i][1], replacements[i][2]), i + 1)

\* SpeechProcessor._sanitize_text_for_tts
sanitize_text_for_tts(text) == apply_replacements(strip(text), 1)

\* DeepgramTTS._get_cache_key: md5 of f"{text}_{voice}_{encoding}_{sample_rate}";
\* the digest is taken to be collision-free, so the key is the hashed content.
get_cache_key(text, voice) == text \o <<"_", voice, "_", "mulaw", "_", "8000">>

\* str(cached_file) and str(temp_file) of synthesize; None is << >>.
NoAudio == << >>
cached_file(key) == <<"audio_cache/">> \o key \o <<".wav">>
temp_file(text) == <<"audio_cache/", "temp_">> \o text \o <<".wav">>

\* What awaiting client.speak.asyncrest.v("1").save(...) can do: write the
\* file, raise, or return without the file being there.
SaveOutcomes == {"written", "raises", "no_file"}

\* synthesize up to the await of save(): "none" for empty text, "hit" when the
\* cached file exists, "miss" when the speak API has to be called.
synthesize_check(text, voice, files) ==
    IF strip(text) = <<>> THEN "none"
    ELSE IF get_cache_key(text, voice) \in files THEN "hit"
    ELSE "miss"

\* The files in audio_cache/ once save() has returned.
files_after_save(files, key, outcome) ==
    IF outcome = "written" THEN files \cup {key} ELSE files

\* The size of each file in audio_cache/ once save() has written n bytes.
bytes_after_save(sizes, key, outcome, n) ==
    IF outcome = "written"
    THEN [k \in DOMAIN sizes \cup {key} |-> IF k = key THEN n ELSE sizes[k]]
    ELSE sizes

\* synthesize after the await of save(): the value it returns.
synthesize_result(text, key, outcome, files) ==
    IF outcome = "raises" THEN NoAudio
    ELSE IF key \in files THEN cached_file(key)
    ELSE temp_file(text)

(* ------------------------- utils/audio_utils.py ------------------------ *)
expected_rate == 8000

\* validate_telephony_audio on n bytes of audio: duration_seconds is
\* n / expected_rate, rejected below 0.1 and above 300.
validate_telephony_audio(n) ==
    /\ n # 0
    /\ ~(n * 10 < expected_rate)
    /\ ~(n > 300 * expected_rate)

(* ----------------------- telephony/xml_builder.py ---------------------- *)
\* A VobizXMLResponse is the sequence of children of its <Response> root; an
\* element keeps its attributes in the order they were set.
Element(tag, attrs, text, children) ==
    [tag |-> tag, attrs |-> attrs, text |-> text, children |-> children]

VobizXMLResponse == <<>>

say_as(doc, text, voice, language) ==
    Append(doc, Element("Say", <<<<"voice", <<voice>>>>,
                                 <<"language", <<language>>>>>>,
                        text, <<>>))

say(doc, text) == say_as(doc, text, "en-IN-Neural2-A", "en-IN")

play(doc, url) == Append(doc, Element("Play", <<>>, url, <<>>))

gather(doc, action, timeout, input_type) ==
    Append(doc, Element("Gather",
                        <<<<"action", action>>, <<"method", <<"POST">>>>,
                          <<"timeout", <<timeout>>>>, <<"input", <<input_type>>>>,
                          <<"finishOnKey", <<"#">>>>>>,
                        <<>>, <<>>))

\* gather_with_prompt that adds its Say next to the Gather, not inside it.
gather_with_prompt_sibling(doc, prompt_text, action, timeout, input_type) ==
    Append(Append(doc,
                  Element("Gather",
                          <<<<"action", action>>, <<"method", <<"POST">>>>,
                            <<"timeout", <<timeout>>>>,
                            <<"input", <<input_type>>>>>>,
                          <<>>, <<>>)),
           Element("Say", <<<<"voice", <<"en-IN-Neural2-A">>>>,
                            <<"language", <<"en-IN">>>>>>,
                   prompt_text, <<>>))

gather_with_prompt(doc, prompt_text, action, timeout, input_type) ==
    Append(doc, Element("Gather",
                        <<<<"action", action>>, <<"method", <<"POST">>>>,
                          <<"timeout", <<timeout>>>>, <<"input", <<input_type>>>>>>,
                        <<>>,
                        <<Element("Say", <<<<"voice", <<"en-IN-Neural2-A">>>>,
                                           <<"language", <<"en-IN">>>>>>,
                                  prompt_text, <<>>)>>))

record(doc, action, max_length, transcribe) ==
    Append(doc, Element("Record",
                        <<<<"action", action>>, <<"method", <<"POST">>>>,
                          <<"maxLength", <<max_length>>>>,
                          <<"finishOnKey", <<"#">>>>,
                          <<"transcribe",
                            <<IF transcribe THEN "true" ELSE "false">>>>>>,
                        <<>>, <<>>))

redirect(doc, url) ==
    Append(doc, Element("Redirect", <<<<"method", <<"POST">>>>>>, url, <<>>))

\* hangup that puts its element first instead of last.
hangup_first(doc) == <<Element("Hangup", <<>>, <<>>, <<>>)>> \o doc

hangup(doc) == Append(doc, Element("Hangup", <<>>, <<>>, <<>>))

\* pause adding nothing to the document.
pause_skipped(doc, length) == doc

pause(doc, length) ==
    Append(doc, Element("Pause", <<<<"length", <<length>>>>>>, <<>>, <<>>))

\* The declaration line followed by the serialised root element.
build(doc) ==
    <<"<?xml version=\"1.0\" encoding=\"UTF-8\"?>",
      Element("Response", <<>>, <<>>, doc)>>

\* ElementTree's _escape_cdata and _escape_attrib, character by character.
escape_cdata_char(c) ==
    CASE c = "&" -> "&amp;" [] c = "<" -> "&lt;" [] c = ">" -> "&gt;"
      [] OTHER -> c
escape_attrib_char(c) ==
    CASE c = "&" -> "&amp;" [] c = "<" -> "&lt;" [] c = ">" -> "&gt;"
      [] c = "\"" -> "&quot;" [] c = "\r" -> "&#13;" [] c = "\n" -> "&#10;"
      [] c = "\t" -> "&#09;" [] OTHER -> c
escape_cdata(text) == [i \in DOMAIN text |-> escape_cdata_char(text[i])]
escape_attrib(text) == [i \in DOMAIN text |-> escape_attrib_char(text[i])]

\* One piece of serialised markup: the declaration, the line break after it,
\* a start tag, an empty-element tag, an end tag, or character data (s).
Token(k, tag, attrs, s) == [k |-> k, tag |-> tag, attrs |-> attrs, s |-> s]

RECURSIVE tostring(_)
RECURSIVE tostring_all(_)
\* ElementTree's serialiser: `<tag attrs />` for an element without text and
\* children, else start tag, escaped text, children, end tag.
tostring(elem) ==
    LET attrs == [i \in DOMAIN elem.attrs |->
                     <<elem.attrs[i][1], escape_attrib(elem.attrs[i][2])>>]
    IN  IF elem.text = <<>> /\ elem.children = <<>>
        THEN <<Token("empty", elem.tag, attrs, <<>>)>>
        ELSE <<Token("open", elem.tag, attrs, <<>>)>>
             \o (IF elem.text = <<>> THEN <<>>
                 ELSE <<Token("text", "", <<>>, escape_cdata(elem.text))>>)
             \o tostring_all(elem.children)
             \o <<Token("close", elem.tag, <<>>, <<>>)>>
tostring_all(elems) ==
    IF elems = <<>> THEN <<>>
    ELSE tostring(Head(elems)) \o tostring_all(Tail(elems))

\* The string build() returns, as serialised pieces.
build_text(doc) ==
    <<Token("decl", "", <<>>, <<build(doc)[1]>>),
      Token("space", "", <<>>, <<"\n">>)>> \o tostring(build(doc)[2])

DefaultErrorMessage == <<"We're experiencing technical difficulties.">>

create_welcome_response(callback_url) ==
    build(redirect(
            say(gather_with_prompt(VobizXMLResponse,
                    <<"Welcome to our service. How may I help you today?">>,
                    callback_url, "5", "speech"),
                <<"I didn't catch that. Please try again.">>),
            callback_url))

\* create_error_response without its .hangup() call.
create_error_response_no_hangup(error_message) ==
    build(say(say(VobizXMLResponse, error_message),
              <<"Please try again later. Goodbye.">>))

create_error_response(error_message) ==
    build(hangup(say(say(VobizXMLResponse, error_message),
                     <<"Please try again later. Goodbye.">>)))

\* create_goodbye_response without its .hangup() call.
create_goodbye_response_no_hangup(message) ==
    build(say(VobizXMLResponse, message))

create_goodbye_response(message) ==
    build(hangup(say(VobizXMLResponse, message)))

\* The directives of a built document, and the tags among them.
Directives(xml) == xml[2].children
Tags(xml) == {Directives(xml)[i].tag : i \in DOMAIN Directives(xml)}

(* ------------------------ storage/data_capture.py ----------------------- *)
\* Responses classified by extract_user_interest: the examples of the
\* specification, the table of test_interest_extraction, and texts that are
\* blank, upper-case, padded, or hold no keyword at all.
YesImInterested ==
    <<"Y", "e", "s", ",", " ", "I", "'", "m", " ", "i", "n", "t", "e", "r",
      "e", "s", "t", "e", "d">>
NoNotInterested ==
    <<"N", "o", ",", " ", "n", "o", "t", " ", "i", "n", "t", "e", "r", "e",
      "s", "t", "e", "d">>
IllThinkAboutIt ==
    <<"I", "'", "l", "l", " ", "t", "h", "i", "n", "k", " ", "a", "b", "o",
      "u", "t", " ", "i", "t">>
Empty == <<>>
BlahBlah == <<"b", "l", "a", "h", " ", "b", "l", "a", "h">>
YesButNotReally ==
    <<"y", "e", "s", " ", "b", "u", "t", " ", "n", "o", "t", " ", "r", "e",
      "a", "l", "l", "y">>
MaybeLater == <<"M", "a", "y", "b", "e", " ", "l", "a", "t", "e", "r">>
ImNotSure == <<"I", "'", "m", " ", "n", "o", "t", " ", "s", "u", "r", "e">>
DefinitelyYes ==
    <<"D", "e", "f", "i", "n", "i", "t", "e", "l", "y", " ", "y", "e", "s",
      "!">>
AbsolutelyNot ==
    <<"A", "b", "s", "o", "l", "u", "t", "e", "l", "y", " ", "n", "o", "t">>
Blank == <<" ", " ", " ">>
Nope == <<" ", "N", "O", "P", "E", " ">>
Perhaps == <<"P", "e", "r", "h", "a", "p", "s">>
Hmm == <<"H", "m", "m">>
InterestTexts ==
    {YesImInterested, NoNotInterested, IllThinkAboutIt, Empty, BlahBlah,
     YesButNotReally, MaybeLater, ImNotSure, DefinitelyYes, AbsolutelyNot,
     Blank, Nope, Perhaps, Hmm}

YES == "yes"
NO == "no"
MAYBE == "maybe"
UNSURE == "unsure"
NO_RESPONSE == "no_response"

Upper == <<"A", "B", "C", "D", "E", "F", "G", "H", "I", "J", "K", "L", "M",
          "N", "O", "P", "Q", "R", "S", "T", "U", "V", "W", "X", "Y", "Z">>
Lower == <<"a", "b", "c", "d", "e", "f", "g", "h", "i", "j", "k", "l", "m",
          "n", "o", "p", "q", "r", "s", "t", "u", "v", "w", "x", "y", "z">>

\* str.lower() on one character
lower_char(c) ==
    IF \E i \in DOMAIN Upper : Upper[i] = c
    THEN Lower[CHOOSE i \in DOMAIN Upper : Upper[i] = c]
    ELSE c
lower(s) == [i \in DOMAIN s |-> lower_char(s[i])]

\* keyword in response_lower
contains(s, kw) ==
    \E i \in 1..(Len(s) - Len(kw) + 1) : SubSeq(s, i, i + Len(kw) - 1) = kw

yes_keywords ==
    {<<"y", "e", "s">>, <<"y", "e", "a", "h">>, <<"s", "u", "r", "e">>,
     <<"o", "k", "a", "y">>, <<"o", "k">>,
     <<"i", "n", "t", "e", "r", "e", "s", "t", "e", "d">>,
     <<"d", "e", "f", "i", "n", "i", "t", "e", "l", "y">>,
     <<"a", "b", "s", "o", "l", "u", "t", "e", "l", "y">>}
no_keywords ==
    {<<"n", "o">>, <<"n", "o", "p", "e">>,
     <<"n", "o", "t", " ", "i", "n", "t", "e", "r", "e", "s", "t", "e", "d">>,
     <<"d", "o", "n", "'", "t">>, <<"n", "e", "v", "e", "r">>,
     <<"n", "o", "t", " ", "n", "o", "w">>}
maybe_keywords ==
    {<<"m", "a", "y", "b", "e">>, <<"p", "e", "r", "h", "a", "p", "s">>,
     <<"m", "i", "g", "h", "t">>,
     <<"t", "h", "i", "n", "k", " ", "a", "b", "o", "u", "t">>,
     <<"c", "o", "n", "s", "i", "d", "e", "r">>, <<"l", "a", "t", "e", "r">>}

\* extract_user_interest with the no-keywords tested before the yes-keywords.
extract_user_interest_no_first(user_response) ==
    IF user_response = <<>> \/ strip(user_response) = <<>> THEN NO_RESPONSE
    ELSE LET response_lower == strip(lower(user_response))
         IN  IF \E k \in no_keywords : contains(response_lower, k) THEN NO
             ELSE IF \E k \in yes_keywords : contains(response_lower, k) THEN YES
             ELSE IF \E k \in maybe_keywords : contains(response_lower, k) THEN MAYBE
             ELSE UNSURE

extract_user_interest(user_response) ==
    IF user_response = <<>> \/ strip(user_response) = <<>> THEN NO_RESPONSE
    ELSE LET response_lower == strip(lower(user_response))
         IN  IF \E k \in yes_keywords : contains(response_lower, k) THEN YES
             ELSE IF \E k \in no_keywords : contains(response_lower, k) THEN NO
             ELSE IF \E k \in maybe_keywords : contains(response_lower, k) THEN MAYBE
             ELSE UNSURE

\* No build() has returned yet.
NotBuilt == <<>>

(* ----------------- SessionManager calls as operations ------------------ *)
Call(op, id) == [op |-> op, call_id |-> id, known |-> id \in DOMAIN sessions]

CreateSession(id, direction, call_type) ==
    /\ sessions' = create_session(sessions, id, direction, call_type)
    /\ returned' = get_session(sessions', id)
    /\ called' = Call("create_session", id)
    /\ UNCHANGED <<now, cache, file_bytes, sink, h>>
    /\ snapshot' = seen_through(snapshot, sessions')
    /\ UNCHANGED <<builder, built>>

GetSession(id) ==
    /\ returned' = get_session(sessions, id)
    /\ called' = Call("get_session", id)
    /\ UNCHANGED <<sessions, now, cache, file_bytes, sink, h>>
    /\ UNCHANGED <<snapshot, builder, built>>

UpdateStatus(id, status) ==
    /\ sessions' = update_status(sessions, id, status, now)
    /\ returned' = get_session(sessions', id)
    /\ called' = Call("update_status", id)
    /\ UNCHANGED <<now, cache, file_bytes, sink, h>>
    /\ UNCHANGED <<snapshot, builder, built>>

AddConversationTurn(id, role, content) ==
    /\ id \in DOMAIN sessions => Len(sessions[id].conversation_history) < MaxLog
    /\ sessions' = add_conversation_turn(sessions, id, role, content, "none")
    /\ returned' = get_session(sessions', id)
    /\ called' = Call("add_conversation_turn", id)
    /\ UNCHANGED <<now, cache, file_bytes, sink, h>>
    /\ UNCHANGED <<snapshot, builder, built>>

EndSession(id) ==
    /\ sessions' = end_session(sessions, id)
    /\ returned' = ended_session(sessions, id, now)
    /\ called' = Call("end_session", id)
    /\ UNCHANGED <<now, cache, file_bytes, sink, h>>
    /\ snapshot' = seen_through(snapshot, sessions')
    /\ UNCHANGED <<builder, built>>

GetActiveSessions ==
    /\ snapshot' = get_active_sessions(sessions)
    /\ called' = Call("get_active_sessions", "none")
    /\ UNCHANGED <<sessions, returned, now, cache, file_bytes, sink, h, builder, built>>

\* The caller of get_active_sessions assigns a session under a key of the
\* dict it was given.
SnapshotSetItem(id) ==
    /\ snapshot' = [snapshot EXCEPT !.keys = @ \cup {id}]
    /\ sessions' = IF snapshot.shared
                   THEN create_session(sessions, id, INBOUND, GENERAL)
                   ELSE sessions
    /\ called' = Call("snapshot_setitem", id)
    /\ UNCHANGED <<returned, now, cache, file_bytes, sink, h, builder, built>>

\* The caller deletes a key of the dict it was given.
SnapshotDelItem(id) ==
    /\ id \in snapshot.keys
    /\ snapshot' = [snapshot EXCEPT !.keys = @ \ {id}]
    /\ sessions' = IF snapshot.shared THEN end_session(sessions, id)
                   ELSE sessions
    /\ called' = Call("snapshot_delitem", id)
    /\ UNCHANGED <<returned, now, cache, file_bytes, sink, h, builder, built>>

\* datetime.utcnow() advances between calls.
Tick ==
    /\ now < MaxTime
    /\ now' = now + 1
    /\ UNCHANGED <<sessions, returned, called, cache, file_bytes, sink, h>>
    /\ UNCHANGED <<snapshot, builder, built>>

(* ------------------------ worker coroutines ---------------------------- *)
\* Each worker handles one request at a time.  pc is where its coroutine is
\* suspended: "policy" in the await of the agent, "save" in the await of the
\* speak API, "transport" in the await of the Vobiz API.
Procs == {"p1", "p2"}
NoResponse == [kind |-> "none", status |-> 0, body |-> <<>>]
XmlResponse(xml) == [kind |-> "xml", status |-> 200, body |-> xml]
JsonResponse(fields) == [kind |-> "json", status |-> 200, body |-> fields]
HTTPException(code) == [kind |-> "http_error", status |-> code, body |-> <<>>]

Idle ==
    [pc |-> "idle", route |-> "none", stage |-> "none", call_id |-> "none",
     speech |-> <<>>, reply |-> <<>>, raw |-> <<>>, language |-> "none",
     text |-> <<>>, voice |-> "none", audio |-> NoAudio, session |-> {},
     resp |-> NoResponse]

Ready(p) == h[p].pc \in {"idle", "done"}

\* The handler has returned resp.
Finished(route, id, resp) ==
    [Idle EXCEPT !.pc = "done", !.route = route, !.call_id = id, !.resp = resp]

Init ==
    /\ sessions = << >>
    /\ returned = {}
    /\ called = [op |-> "none", call_id |-> "none", known |-> FALSE]
    /\ now = 1
    /\ cache = {}
    /\ file_bytes = << >>
    /\ sink = <<>>
    /\ h = [p \in Procs |-> Idle]
    /\ snapshot = [shared |-> FALSE, keys |-> {}]
    /\ builder = VobizXMLResponse
    /\ built = NotBuilt

(* ----------------------- storage/data_capture.py ----------------------- *)
\* A value handed back to a caller inside the service.
Returned(value) == [kind |-> "value", status |-> 0, body |-> <<value>>]

\* A worker classifies one response: extract_user_interest(text).
ExtractUserInterest(p, text) ==
    /\ Ready(p)
    /\ h' = [h EXCEPT ![p] =
               [Finished("interest", "none",
                         Returned(extract_user_interest(text)))
                   EXCEPT !.speech = text]]
    /\ UNCHANGED <<sessions, returned, called, now, cache, file_bytes, sink,
                   snapshot, builder, built>>

InterestNext == \E p \in Procs, text \in InterestTexts : ExtractUserInterest(p, text)

SpecInterest == Init /\ [][InterestNext]_vars

(* ------------------------- speech/processor.py ------------------------- *)
\* generate_speech handing the raw text to synthesize, so that the cache key
\* is taken from the raw text.
generate_speech_begin_raw_text(text, language, files) ==
    LET voice == get_voice_for_language(language)
    IN  [check |-> synthesize_check(text, voice, files),
         text |-> text,
         voice |-> voice,
         key |-> get_cache_key(text, voice)]

\* SpeechProcessor.generate_speech up to the await inside synthesize.
generate_speech_begin(text, language, files) ==
    LET sanitized_text == sanitize_text_for_tts(text)
        voice == get_voice_for_language(language)
    IN  [check |-> synthesize_check(sanitized_text, voice, files),
         text |-> sanitized_text,
         voice |-> voice,
         key |-> get_cache_key(sanitized_text, voice)]

\* A direct call of generate_telephony_response(text, language).
GenerateSpeech(p, text, language) ==
    /\ Ready(p)
    /\ LET b == generate_speech_begin(text, language, cache)
           req == [Idle EXCEPT !.route = "speech", !.raw = text,
                               !.language = language, !.text = b.text,
                               !.voice = b.voice]
       IN  h' = [h EXCEPT ![p] =
                  CASE b.check = "none" -> [req EXCEPT !.pc = "done"]
                    [] b.check = "hit" ->
                         [req EXCEPT !.pc = "done", !.audio = cached_file(b.key)]
                    [] OTHER -> [req EXCEPT !.pc = "save", !.stage = "speech"]]
    /\ UNCHANGED <<sessions, returned, called, now, cache, file_bytes, sink>>
    /\ UNCHANGED <<snapshot, builder, built>>

(* --------------------------- api/telephony.py -------------------------- *)
BASE_URL == "https://your-domain.com"
FollowupText == <<"Is there anything else I can help you with?">>

\* f"/telephony/gather/{call_id}"
gather_callback_url(call_id) == <<"/telephony/gather/", call_id>>

\* Turns the handlers suspended in the agent will still append under id.
PendingTurns(id) ==
    Cardinality({q \in Procs : h[q].pc = "policy" /\ h[q].call_id = id
                                  /\ h[q].route = "gather"})
    + 2 * Cardinality({q \in Procs : h[q].pc = "policy" /\ h[q].call_id = id
                                        /\ h[q].route = "marketing_gather"})

\* Rows the handlers suspended in the agent may still hand to csv_storage.
PendingRows ==
    Cardinality({q \in Procs : h[q].pc = "policy"
                                  /\ h[q].route = "marketing_gather"})

RoomWithin(id, n, max) ==
    (IF id \in DOMAIN sessions
     THEN Len(sessions[id].conversation_history) ELSE 0)
        + PendingTurns(id) + n <= max

Room(id, n) == RoomWithin(id, n, MaxTurns)

\* The turns a gather webhook for a stored call adds to the history, the
\* reply to a speech included.
GatherTurns(SpeechResult, Digits) ==
    IF SpeechResult # <<>> THEN 2 ELSE IF Digits # <<>> THEN 1 ELSE 0

\* handle_incoming_call.  The Form parameter named CallStatus hides the
\* imported enum inside the function, so `CallStatus.IN_PROGRESS` on line 72
\* is an attribute lookup on a str or on None: it raises AttributeError after
\* create_session has run, and the except clause answers with the error
\* document.
HandleIncomingCall(p, id) ==
    /\ Ready(p)
    /\ sessions' = create_session(sessions, id, INBOUND, GENERAL)
    /\ h' = [h EXCEPT ![p] =
               Finished("incoming", id,
                        XmlResponse(create_error_response(DefaultErrorMessage)))]
    /\ UNCHANGED <<returned, called, now, cache, file_bytes, sink>>
    /\ UNCHANGED <<snapshot, builder, built>>

\* The except-less else branch of handle_gather_response: Say the reply, Gather
\* with the follow-up prompt, goodbye, Hangup.
gather_fallback_response(call_id, response_text) ==
    build(hangup(say(gather_with_prompt(say(VobizXMLResponse, response_text),
                                        FollowupText,
                                        gather_callback_url(call_id),
                                        "5", "speech"),
                     <<"Thank you for calling. Goodbye.">>)))

\* handle_gather_response up to its first suspending await.
HandleGatherResponse(p, id, SpeechResult, Digits) ==
    /\ Ready(p)
    /\ IF id \notin DOMAIN sessions
       THEN /\ h' = [h EXCEPT ![p] =
                       Finished("gather", id,
                           XmlResponse(create_error_response(
                               <<"Session not found.">>)))]
            /\ UNCHANGED sessions
       ELSE IF SpeechResult # <<>>
       THEN /\ sessions' = add_conversation_turn(sessions, id, "user",
                                                 SpeechResult, "speech")
            /\ h' = [h EXCEPT ![p] =
                       [Idle EXCEPT !.pc = "policy", !.route = "gather",
                                    !.call_id = id, !.speech = SpeechResult]]
       ELSE IF Digits # <<>>
       THEN /\ sessions' = add_conversation_turn(sessions, id, "user",
                                                 Digits, "dtmf")
            /\ h' = [h EXCEPT ![p] =
                       Finished("gather", id,
                           XmlResponse(build(hangup(say(say(VobizXMLResponse,
                               <<"You pressed ">> \o Digits \o <<".">>),
                               <<"Goodbye.">>)))))]
       ELSE /\ h' = [h EXCEPT ![p] =
                       Finished("gather", id,
                           XmlResponse(create_goodbye_response(
                               <<"I didn't receive any input. Goodbye.">>)))]
            /\ UNCHANGED sessions
    /\ UNCHANGED <<returned, called, now, cache, file_bytes, sink>>
    /\ UNCHANGED <<snapshot, builder, built>>

\* handle_gather_response once the reply audio is known.  With audio the
\* handler goes on to the follow-up prompt and leaves xml_response an unbuilt
\* VobizXMLResponse; Response(content=...) cannot encode that object, and the
\* AttributeError ends in the except clause.
gather_after_reply(rec, audio_path, files) ==
    IF audio_path = NoAudio
    THEN Finished("gather", rec.call_id,
                  XmlResponse(gather_fallback_response(rec.call_id, rec.reply)))
    ELSE LET b == generate_speech_begin(FollowupText, "en-IN", files)
         IN  IF b.check = "miss"
             THEN [rec EXCEPT !.pc = "save", !.stage = "followup",
                              !.text = b.text, !.voice = b.voice,
                              !.audio = audio_path]
             ELSE Finished("gather", rec.call_id,
                      XmlResponse(create_error_response(DefaultErrorMessage)))

\* handle_gather_response from the return of process_call_input to the next
\* suspending await.
gather_after_policy(rec, response_text, files) ==
    LET b == generate_speech_begin(response_text, "en-IN", files)
        r == [rec EXCEPT !.reply = response_text]
    IN  CASE b.check = "none" -> gather_after_reply(r, NoAudio, files)
          [] b.check = "hit" -> gather_after_reply(r, cached_file(b.key), files)
          [] OTHER -> [r EXCEPT !.pc = "save", !.stage = "reply",
                                !.text = b.text, !.voice = b.voice]

\* handle_call_events.  Its Form parameter CallStatus hides the enum as well:
\* building status_mapping evaluates `CallStatus.INITIATED` on a str or None,
\* raises AttributeError before any session is touched, and the except clause
\* raises HTTPException(500).
HandleCallEvents(p, id, status) ==
    /\ Ready(p)
    /\ h' = [h EXCEPT ![p] = Finished("events", id, HTTPException(500))]
    /\ UNCHANGED <<sessions, returned, called, now, cache, file_bytes, sink>>
    /\ UNCHANGED <<snapshot, builder, built>>

(* ---------------------------- api/outbound.py -------------------------- *)
\* Field names under which the platform may carry the call identifier; a map
\* gives each field a call id or "" (absent or empty).
Fields == {"CallSid", "call_sid", "CallUUID", "call_uuid", "request_uuid",
           "RequestUUID"}

RECURSIVE first_of(_, _)
\* result.get(f1) or result.get(f2) or ...: "" when none is non-empty
first_of(map, names) ==
    IF names = <<>> THEN ""
    ELSE IF map[Head(names)] # "" THEN map[Head(names)]
    ELSE first_of(map, Tail(names))

notification_initiate_fields ==
    <<"CallSid", "call_sid", "CallUUID", "call_uuid", "request_uuid",
      "RequestUUID">>
marketing_initiate_fields == <<"CallSid", "call_sid">>
notification_handle_fields == <<"CallSid", "call_sid", "CallUUID", "call_uuid">>
marketing_handle_fields == <<"CallSid">>

\* initiate_notification_call / initiate_marketing_call up to the await of
\* vobiz_client.initiate_call.
InitiateCall(p, call_type) ==
    /\ Ready(p)
    /\ h' = [h EXCEPT ![p] =
               [Idle EXCEPT !.pc = "transport",
                            !.route = IF call_type = NOTIFICATION
                                      THEN "initiate_notification"
                                      ELSE "initiate_marketing"]]
    /\ UNCHANGED <<sessions, returned, called, now, cache, file_bytes, sink>>
    /\ UNCHANGED <<snapshot, builder, built>>

\* The initiate endpoint leaving the session as create_session stored it.
attach_metadata_skipped(S, call_sid, call_type) == S

\* session.notification_metadata = ... / session.campaign_metadata = ...
\* on the session create_session has just stored.
attach_metadata(S, call_sid, call_type) ==
    IF call_type = NOTIFICATION
    THEN [S EXCEPT ![call_sid].notification_metadata = HasMeta]
    ELSE [S EXCEPT ![call_sid].campaign_metadata = HasMeta]

\* `if call_sid:` taken whatever call_sid is.
has_call_sid_always(call_sid) == TRUE

\* if call_sid:
has_call_sid(call_sid) == call_sid # ""

\* The rest of the initiate endpoints: the Vobiz API raised, or answered with
\* a loosely structured map.
InitiateCallReturns(p, raised, result) ==
    /\ h[p].pc = "transport"
    /\ LET call_type == IF h[p].route = "initiate_notification"
                        THEN NOTIFICATION ELSE MARKETING
           call_sid == first_of(result,
                                IF call_type = NOTIFICATION
                                THEN notification_initiate_fields
                                ELSE marketing_initiate_fields)
       IN  IF raised
           THEN /\ h' = [h EXCEPT ![p] =
                           Finished(h[p].route, "none", HTTPException(500))]
                /\ UNCHANGED sessions
           ELSE /\ sessions' =
                     IF has_call_sid(call_sid)
                     THEN attach_metadata(
                              create_session(sessions, call_sid, OUTBOUND, call_type),
                              call_sid, call_type)
                     ELSE sessions
                /\ h' = [h EXCEPT ![p] =
                           Finished(h[p].route, call_sid,
                                    JsonResponse(<<"initiated", call_sid>>))]
    /\ UNCHANGED <<returned, called, now, cache, file_bytes, sink>>
    /\ UNCHANGED <<snapshot, builder, built>>

notification_fallback_message ==
    <<"Hello. This is an automated test call from the AI voice agent platform.\nThis call is being made to verify outbound calling functionality.\nNo action is required from you.\nThank you.">>

\* handle_notification_call from the return of request.form() to the await
\* of the agent.
HandleNotificationCall(p, form_data) ==
    /\ Ready(p)
    /\ LET call_sid == first_of(form_data, notification_handle_fields)
       IN  IF call_sid \notin DOMAIN sessions
                \/ sessions[call_sid].notification_metadata = NoMeta
           THEN /\ h' = [h EXCEPT ![p] =
                           Finished("notification", call_sid,
                               XmlResponse(build(hangup(say(pause(
                                   say(VobizXMLResponse, notification_fallback_message),
                                   "1"), <<"Goodbye.">>)))))]
                /\ UNCHANGED sessions
           ELSE /\ sessions' = update_status(sessions, call_sid, IN_PROGRESS, now)
                /\ h' = [h EXCEPT ![p] =
                           [Idle EXCEPT !.pc = "policy", !.route = "notification",
                                        !.call_id = call_sid]]
    /\ UNCHANGED <<returned, called, now, cache, file_bytes, sink>>
    /\ UNCHANGED <<snapshot, builder, built>>

\* f"/telephony/outbound/marketing/gather/{call_sid}"
marketing_callback_url(call_sid) == <<"/telephony/outbound/marketing/gather/", call_sid>>

\* handle_marketing_call from the return of request.form() to the await of
\* the agent.
HandleMarketingCall(p, form_data) ==
    /\ Ready(p)
    /\ LET call_sid == first_of(form_data, marketing_handle_fields)
       IN  IF call_sid \notin DOMAIN sessions
                \/ sessions[call_sid].campaign_metadata = NoMeta
           THEN /\ h' = [h EXCEPT ![p] =
                           Finished("marketing", call_sid,
                               XmlResponse(create_error_response(
                                   <<"Session not found.">>)))]
                /\ UNCHANGED sessions
           ELSE /\ sessions' = update_status(sessions, call_sid, IN_PROGRESS, now)
                /\ h' = [h EXCEPT ![p] =
                           [Idle EXCEPT !.pc = "policy", !.route = "marketing",
                                        !.call_id = call_sid]]
    /\ UNCHANGED <<returned, called, now, cache, file_bytes, sink>>
    /\ UNCHANGED <<snapshot, builder, built>>

\* handle_marketing_gather from the return of request.form() to the await of
\* the agent.  `session.campaign_metadata.get` on a session without campaign
\* metadata raises and ends in the except clause.
HandleMarketingGather(p, id, speech_result) ==
    /\ Ready(p)
    /\ IF id \notin DOMAIN sessions
       THEN h' = [h EXCEPT ![p] =
                    Finished("marketing_gather", id,
                        XmlResponse(create_error_response(<<"Session not found.">>)))]
       ELSE IF sessions[id].campaign_metadata = NoMeta
       THEN h' = [h EXCEPT ![p] =
                    Finished("marketing_gather", id,
                        XmlResponse(create_error_response(DefaultErrorMessage)))]
       ELSE /\ Room(id, 2)
            /\ Len(sink) + PendingRows < MaxRows
            /\ h' = [h EXCEPT ![p] =
                       [Idle EXCEPT !.pc = "policy", !.route = "marketing_gather",
                                    !.call_id = id, !.speech = speech_result,
                                    !.session = {sessions[id]}]]
    /\ UNCHANGED <<sessions, returned, called, now, cache, file_bytes, sink>>
    /\ UNCHANGED <<snapshot, builder, built>>

\* speech_result or "No response"
or_no_response(speech_result) ==
    IF speech_result # <<>> THEN speech_result ELSE <<"No response">>

\* The number of characters of the speech the note of a row keeps.
note_limit == 100

\* s[:n] that keeps the whole of s.
first_chars_whole(s, n) == s

\* s[:n]
first_chars(s, n) == SubSeq(s, 1, IF Len(s) < n THEN Len(s) ELSE n)

\* f"User response: {speech_result[:100] if speech_result else 'No response'}"
notes_of(speech_result) ==
    <<"User response: ">> \o (IF speech_result # <<>>
                              THEN first_chars(speech_result, note_limit)
                              ELSE <<"No response">>)

\* The MarketingCallData row handle_marketing_gather hands to csv_storage.
MarketingCallData(call_id, session, speech_result) ==
    [call_id |-> call_id,
     user_interest |-> extract_user_interest(speech_result),
     language |-> "en-IN",
     call_ended_at |-> session.ended_at,
     call_duration_seconds |-> None,
     call_status |-> "completed",
     notes |-> notes_of(speech_result)]

\* The handler continues when the agent call it awaits returns or raises.
AgentReturns(p, raised, text) ==
    /\ h[p].pc = "policy"
    /\ LET rec == h[p]
           id == rec.call_id
           failed == Finished(rec.route, id,
                        XmlResponse(create_error_response(DefaultErrorMessage)))
       IN  CASE rec.route = "gather" ->
                  /\ sessions' = IF raised THEN sessions
                                 ELSE add_conversation_turn(sessions, id,
                                          "assistant", text, "none")
                  /\ h' = [h EXCEPT ![p] =
                             IF raised THEN failed
                             ELSE gather_after_policy(rec, text, cache)]
                  /\ UNCHANGED sink
             [] rec.route = "notification" ->
                  /\ h' = [h EXCEPT ![p] =
                             IF raised THEN failed
                             ELSE Finished(rec.route, id,
                                    XmlResponse(build(hangup(say(pause(
                                        say(VobizXMLResponse, text), "1"),
                                        <<"Thank you. Goodbye.">>)))))]
                  /\ UNCHANGED <<sessions, sink>>
             [] rec.route = "marketing" ->
                  /\ h' = [h EXCEPT ![p] =
                             IF raised THEN failed
                             ELSE Finished(rec.route, id,
                                    XmlResponse(build(hangup(say(
                                        gather_with_prompt(
                                            say(VobizXMLResponse, text),
                                            <<"Are you interested in learning more? Please say yes or no.">>,
                                            marketing_callback_url(id), "5", "speech"),
                                        <<"Thank you for your time. Goodbye.">>)))))]
                  /\ UNCHANGED <<sessions, sink>>
             [] OTHER ->
                  /\ sessions' =
                       IF raised THEN sessions
                       ELSE add_conversation_turn(
                                add_conversation_turn(sessions, id, "user",
                                    or_no_response(rec.speech), "speech"),
                                id, "assistant", text, "none")
                  /\ \E saved \in BOOLEAN :
                       sink' = IF raised \/ ~saved THEN sink
                               ELSE Append(sink,
                                      MarketingCallData(id,
                                          CHOOSE x \in rec.session : TRUE,
                                          rec.speech))
                  /\ h' = [h EXCEPT ![p] =
                             IF raised THEN failed
                             ELSE Finished(rec.route, id,
                                    XmlResponse(build(hangup(say(
                                        say(VobizXMLResponse, text),
                                        <<"Goodbye.">>)))))]
    /\ UNCHANGED <<returned, called, now, cache, file_bytes>>
    /\ UNCHANGED <<snapshot, builder, built>>

\* synthesize resumes when save() returns or raises; generate_speech hands
\* the value to its caller, which runs to its next await or to its return.
SaveReturns(p, outcome, n) ==
    /\ h[p].pc = "save"
    /\ LET rec == h[p]
           key == get_cache_key(rec.text, rec.voice)
           files == files_after_save(cache, key, outcome)
           audio_path == synthesize_result(rec.text, key, outcome, files)
       IN  /\ cache' = files
           /\ file_bytes' = bytes_after_save(file_bytes, key, outcome, n)
           /\ h' = [h EXCEPT ![p] =
                CASE rec.stage = "speech" ->
                       [rec EXCEPT !.pc = "done", !.audio = audio_path]
                  [] rec.stage = "reply" ->
                       gather_after_reply(rec, audio_path, files)
                  [] OTHER ->
                       Finished("gather", rec.call_id,
                           XmlResponse(create_error_response(DefaultErrorMessage)))]
    /\ UNCHANGED <<sessions, returned, called, now, sink>>
    /\ UNCHANGED <<snapshot, builder, built>>

(* --------------------------- specifications ---------------------------- *)
\* Maps that carry one call id under one field name, or under none.
PlatformMaps(ids) ==
    {[f \in Fields |-> IF f = g THEN id ELSE ""] :
        g \in Fields \cup {"none"}, id \in ids}

TTSNext ==
    \/ \E p \in Procs, t \in RawTexts, l \in Languages : GenerateSpeech(p, t, l)
    \/ \E p \in Procs, o \in SaveOutcomes, n \in AudioSizes : SaveReturns(p, o, n)

SpecTTS == Init /\ [][TTSNext]_vars

\* The inbound webhooks of api/telephony.py, with the marketing gather route.
HooksNext ==
    \/ \E p \in Procs, id \in LiveIds : HandleIncomingCall(p, id)
    \/ \E p \in Procs, id \in CallIds, sp \in Speeches, d \in DigitInputs :
           /\ id \in DOMAIN sessions => Room(id, GatherTurns(sp, d))
           /\ HandleGatherResponse(p, id, sp, d)
    \/ \E p \in Procs, id \in CallIds, st \in PlatformStatuses :
           HandleCallEvents(p, id, st)
    \/ \E p \in Procs, id \in CallIds, sp \in Speeches :
           HandleMarketingGather(p, id, sp)
    \/ \E p \in Procs, raised \in BOOLEAN, r \in Replies : AgentReturns(p, raised, r)
    \/ \E p \in Procs, o \in SaveOutcomes, n \in OneSecond : SaveReturns(p, o, n)

SpecHooks == Init /\ [][HooksNext]_vars

\* The outbound endpoints and webhooks of api/outbound.py; an incoming
\* webhook supplies the sessions that are not outbound ones.
\* A speech of note_limit + 1 characters: "yes" and then exclamation marks.
LongSpeech ==
    [i \in 1..(note_limit + 1) |-> IF i <= 3 THEN <<"y", "e", "s">>[i] ELSE "!"]

\* The SpeechResult values of the marketing gather webhook.
MarketingSpeeches == Speeches \cup {LongSpeech}

OutboundNext ==
    \/ \E p \in Procs, ty \in {NOTIFICATION, MARKETING} : InitiateCall(p, ty)
    \/ \E p \in Procs, raised \in BOOLEAN, m \in PlatformMaps(LiveIds) :
           InitiateCallReturns(p, raised, m)
    \/ \E p \in Procs, m \in PlatformMaps(CallIds) : HandleNotificationCall(p, m)
    \/ \E p \in Procs, m \in PlatformMaps(CallIds) : HandleMarketingCall(p, m)
    \/ \E p \in Procs, id \in CallIds, sp \in MarketingSpeeches :
           HandleMarketingGather(p, id, sp)
    \/ \E p \in Procs, id \in LiveIds : HandleIncomingCall(p, id)
    \/ \E p \in Procs, raised \in BOOLEAN, r \in Replies : AgentReturns(p, raised, r)

SpecOutbound == Init /\ [][OutboundNext]_vars

\* The turns a history may hold when a speech webhook is delivered twice.
MaxRedelivered == 4

\* Speech gather webhooks of one call delivered more than once, each of them
\* while the others may be suspended in the agent or in the synthesizer; the
\* incoming webhook stores the session.
RedeliveryNext ==
    \/ \E p \in Procs, id \in LiveIds : HandleIncomingCall(p, id)
    \/ \E p \in Procs, id \in LiveIds, sp \in Speeches \ {<<>>} :
           /\ id \in DOMAIN sessions => RoomWithin(id, 2, MaxRedelivered)
           /\ HandleGatherResponse(p, id, sp, <<>>)
    \/ \E p \in Procs, raised \in BOOLEAN, r \in Replies : AgentReturns(p, raised, r)
    \/ \E p \in Procs, o \in SaveOutcomes, n \in OneSecond : SaveReturns(p, o, n)

SpecRedelivery == Init /\ [][RedeliveryNext]_vars

StoreNext ==
    \/ \E id \in CallIds, k \in CreateKinds : CreateSession(id, k[1], k[2])
    \/ \E id \in CallIds : GetSession(id)
    \/ \E id \in CallIds, st \in StatusInputs : UpdateStatus(id, st)
    \/ \E id \in CallIds, r \in Roles, c \in Contents :
           AddConversationTurn(id, r, c)
    \/ \E id \in CallIds : EndSession(id)
    \/ Tick

SpecStore == Init /\ [][StoreNext]_vars

(* ------------------- VobizXMLResponse as operations -------------------- *)
BuilderCalled(op) == [op |-> op, call_id |-> "none", known |-> FALSE]

Say(text) ==
    /\ Len(builder) < MaxDirectives
    /\ builder' = say(builder, text)
    /\ called' = BuilderCalled("say")
    /\ UNCHANGED <<sessions, returned, now, cache, file_bytes, sink, h, snapshot, built>>

Play(url) ==
    /\ Len(builder) < MaxDirectives
    /\ builder' = play(builder, url)
    /\ called' = BuilderCalled("play")
    /\ UNCHANGED <<sessions, returned, now, cache, file_bytes, sink, h, snapshot, built>>

Gather(action) ==
    /\ Len(builder) < MaxDirectives
    /\ builder' = gather(builder, action, "5", "dtmf speech")
    /\ called' = BuilderCalled("gather")
    /\ UNCHANGED <<sessions, returned, now, cache, file_bytes, sink, h, snapshot, built>>

GatherWithPrompt(prompt_text, action) ==
    /\ Len(builder) < MaxDirectives
    /\ builder' = gather_with_prompt(builder, prompt_text, action, "5", "speech")
    /\ called' = BuilderCalled("gather_with_prompt")
    /\ UNCHANGED <<sessions, returned, now, cache, file_bytes, sink, h, snapshot, built>>

Record(action) ==
    /\ Len(builder) < MaxDirectives
    /\ builder' = record(builder, action, "120", FALSE)
    /\ called' = BuilderCalled("record")
    /\ UNCHANGED <<sessions, returned, now, cache, file_bytes, sink, h, snapshot, built>>

Redirect(url) ==
    /\ Len(builder) < MaxDirectives
    /\ builder' = redirect(builder, url)
    /\ called' = BuilderCalled("redirect")
    /\ UNCHANGED <<sessions, returned, now, cache, file_bytes, sink, h, snapshot, built>>

Hangup ==
    /\ Len(builder) < MaxDirectives
    /\ builder' = hangup(builder)
    /\ called' = BuilderCalled("hangup")
    /\ UNCHANGED <<sessions, returned, now, cache, file_bytes, sink, h, snapshot, built>>

Pause ==
    /\ Len(builder) < MaxDirectives
    /\ builder' = pause(builder, "1")
    /\ called' = BuilderCalled("pause")
    /\ UNCHANGED <<sessions, returned, now, cache, file_bytes, sink, h, snapshot, built>>

Build ==
    /\ built' = build_text(builder)
    /\ called' = BuilderCalled("build")
    /\ UNCHANGED <<sessions, returned, now, cache, file_bytes, sink, h, snapshot, builder>>

BuilderNext ==
    \/ \E t \in BuilderTexts : Say(t)
    \/ \E u \in BuilderUrls : Play(u)
    \/ \E u \in BuilderUrls : Gather(u)
    \/ \E t \in BuilderTexts, u \in BuilderUrls : GatherWithPrompt(t, u)
    \/ \E u \in BuilderUrls : Record(u)
    \/ \E u \in BuilderUrls : Redirect(u)
    \/ Hangup
    \/ Pause
    \/ Build

SpecBuilder == Init /\ [][BuilderNext]_vars

\* The store with a caller that holds a dict from get_active_sessions.
SnapshotNext ==
    \/ \E id \in CallIds, k \in CreateKinds : CreateSession(id, k[1], k[2])
    \/ \E id \in CallIds : EndSession(id)
    \/ GetActiveSessions
    \/ \E id \in CallIds : SnapshotSetItem(id)
    \/ \E id \in CallIds : SnapshotDelItem(id)

SpecSnapshot == Init /\ [][SnapshotNext]_vars

(* ======================= SessionManager properties ===================== *)

\* C1: the first update_status with a terminal status sets ended_at, and every
\* later update_status with a terminal status leaves ended_at as it is.
C1_EndedAtStampedOnce ==
    [][\A id \in CallIds, st \in TerminalStatuses :
          (UpdateStatus(id, st) /\ id \in DOMAIN sessions) =>
              IF sessions[id].ended_at = None
              THEN sessions'[id].ended_at # None
              ELSE sessions'[id].ended_at = sessions[id].ended_at]_vars

\* C2: answered_at is unset until the first update_status(in_progress), which
\* sets it to the time of the call; afterwards no update_status, no
\* add_conversation_turn and no end_session on the session changes it.
C2_AnsweredAtSetOnce ==
    [][/\ \A id \in DOMAIN sessions' \ DOMAIN sessions :
              sessions'[id].answered_at = None
       /\ \A id \in DOMAIN sessions :
            LET a == sessions[id].answered_at
                replaced == \E k \in CreateKinds : CreateSession(id, k[1], k[2])
            IN  /\ (a = None /\ UpdateStatus(id, IN_PROGRESS)) =>
                       sessions'[id].answered_at = now
                /\ (a = None /\ ~UpdateStatus(id, IN_PROGRESS)
                      /\ id \in DOMAIN sessions') =>
                       sessions'[id].answered_at = None
                /\ (a # None /\ ~replaced /\ id \in DOMAIN sessions') =>
                       sessions'[id].answered_at = a
                /\ (a # None /\ EndSession(id)) =>
                       \A s \in returned' : s.answered_at = a]_vars

\* C2 witness: a session answered at time 1 was updated again and then removed
\* at time 2, and the session handed back still carries the first answer time.
C2_Witness ==
    /\ called.op = "end_session"
    /\ \E s \in returned :
          s.answered_at = 1 /\ s.ended_at = 2 /\ s.status = COMPLETED
             /\ s.conversation_history # <<>>

\* C3: once a stored session's status is terminal, no update_status call
\* changes it to another value.
C3_TerminalAbsorbing ==
    [][\A id \in DOMAIN sessions, st \in CallStatus :
          (sessions[id].status \in TerminalStatuses /\ UpdateStatus(id, st)) =>
              sessions'[id].status = sessions[id].status]_vars

\* C10: create_session on any id, stored or not, leaves under that id a fresh
\* session (initiated, empty history, no answer or end time, the given
\* direction and call type), returns it, and leaves every other id alone.
C10_CreateOverwrites ==
    [][\A id \in CallIds, k \in CreateKinds :
          CreateSession(id, k[1], k[2]) =>
              /\ DOMAIN sessions' = DOMAIN sessions \cup {id}
              /\ sessions'[id].status = INITIATED
              /\ sessions'[id].conversation_history = <<>>
              /\ sessions'[id].answered_at = None
              /\ sessions'[id].ended_at = None
              /\ sessions'[id].direction = k[1]
              /\ sessions'[id].call_type = k[2]
              /\ get_session(sessions', id) = returned'
              /\ \A o \in DOMAIN sessions \ {id} : sessions'[o] = sessions[o]]_vars

\* C10 witness: create_session was called on an id that was stored, the
\* session under it is fresh, and the other id keeps an answered session.
C10_Witness ==
    /\ called = [op |-> "create_session", call_id |-> "c1", known |-> TRUE]
    /\ "c1" \in DOMAIN sessions /\ sessions["c1"].status = INITIATED
    /\ "c2" \in DOMAIN sessions /\ sessions["c2"].answered_at # None
          /\ sessions["c2"].conversation_history # <<>>

(* ======================== webhook properties =========================== *)
\* The turn dict add_conversation_turn builds.
Turn(role, content, input_type) ==
    [role |-> role, content |-> content, input_type |-> input_type]

\* C4: every add_conversation_turn a gather webhook issues on a stored call
\* id adds exactly its own turn at the end of the history and keeps all the
\* turns that are there, also while another handler for the same id is
\* suspended between its own two appends.
C4_ConcurrentAppendsKept ==
    [][\A p \in Procs, id \in DOMAIN sessions :
          LET old == sessions[id].conversation_history
              new == sessions'[id].conversation_history
          IN  /\ \A sp \in Speeches \ {<<>>}, d \in DigitInputs :
                    HandleGatherResponse(p, id, sp, d) =>
                        new = old \o <<Turn("user", sp, "speech")>>
              /\ \A d \in DigitInputs \ {<<>>} :
                    HandleGatherResponse(p, id, <<>>, d) =>
                        new = old \o <<Turn("user", d, "dtmf")>>
              /\ \A r \in Replies :
                    (AgentReturns(p, FALSE, r) /\ h[p].route = "gather"
                        /\ h[p].call_id = id) =>
                        new = old \o <<Turn("assistant", r, "none")>>]_vars

\* C4 witness: a keypad webhook was handled while a speech webhook for the
\* same call was suspended in the agent; all three turns are in the history.
C4_Witness ==
    /\ "c1" \in DOMAIN sessions
    /\ LET log == sessions["c1"].conversation_history
       IN  /\ Len(log) = 3
           /\ log[1].input_type = "speech"
           /\ log[2].input_type = "dtmf"
           /\ log[3].role = "assistant"

\* C5: the history stored under a call id only grows: across every step the
\* earlier history is a prefix of the later one.
C5_HistoryAppendOnly ==
    [][\A id \in DOMAIN sessions \cap DOMAIN sessions' :
          LET old == sessions[id].conversation_history
              new == sessions'[id].conversation_history
          IN  Len(old) <= Len(new) /\ SubSeq(new, 1, Len(old)) = old]_vars

\* create_error_response("Session not found.")
SessionLost == create_error_response(<<"Session not found.">>)

\* C6: a gather webhook (telephony or marketing) for a call id that is not
\* stored returns at once with the session-lost document (a spoken message,
\* then Hangup, no Gather); it stores nothing, appends nothing and reaches
\* neither the agent nor the speak API.
C6_UnknownGatherSessionLost ==
    [][\A p \in Procs, id \in CallIds \ DOMAIN sessions, sp \in Speeches :
          ((\E d \in DigitInputs : HandleGatherResponse(p, id, sp, d))
              \/ HandleMarketingGather(p, id, sp)) =>
              /\ sessions' = sessions /\ cache' = cache /\ sink' = sink
              /\ h'[p].pc = "done"
              /\ h'[p].resp = XmlResponse(SessionLost)
              /\ LET ds == Directives(h'[p].resp.body)
                 IN  /\ ds[1].tag = "Say"
                     /\ ds[Len(ds)].tag = "Hangup"
                     /\ "Gather" \notin Tags(h'[p].resp.body)]_vars

\* C6 witness: a speech gather for the unknown id c2 has been answered with
\* the session-lost document while c1 is stored.
C6_Witness ==
    /\ "c1" \in DOMAIN sessions /\ "c2" \notin DOMAIN sessions
    /\ \E p \in Procs :
          /\ h[p].pc = "done" /\ h[p].route = "gather" /\ h[p].call_id = "c2"
          /\ h[p].resp = XmlResponse(SessionLost)

\* C7: every webhook handler answers with a control document, the events
\* handler with its acknowledgment; none answers with an error response.
C7_NoFaultEscapes ==
    \A p \in Procs :
        h[p].pc = "done" =>
            IF h[p].route = "events"
            THEN h[p].resp = JsonResponse(<<"received">>)
            ELSE h[p].resp.kind = "xml"

(* ======================== audio cache properties ======================= *)

\* C8: once a generate_speech request has returned an audio reference, the
\* next identical request made while no synthesis is in flight returns the
\* same reference without calling the speak API; no step removes a cached
\* file.
C8_CacheIdempotent ==
    [][/\ cache \subseteq cache'
       /\ \A p \in Procs, t \in RawTexts, l \in Languages :
            (/\ GenerateSpeech(p, t, l)
             /\ h[p].pc = "done" /\ h[p].raw = t /\ h[p].language = l
             /\ h[p].audio # NoAudio
             /\ \A q \in Procs : h[q].pc # "save") =>
                (h'[p].pc = "done" /\ h'[p].audio = h[p].audio)]_vars

\* C9: two requests for the same (sanitized text, voice) are never both
\* inside the speak API call.
C9_SingleSynthesisPerKey ==
    \A p, q \in Procs :
        (p # q /\ h[p].pc = "save" /\ h[q].pc = "save") =>
            get_cache_key(h[p].text, h[p].voice) # get_cache_key(h[q].text, h[q].voice)

\* C11: get_session with any id, and update_status, add_conversation_turn
\* and end_session with an id that is not stored, leave the stored ids and
\* every stored session as they are, store nothing and return None.
C11_UnknownIdNoOp ==
    [][\A id \in CallIds :
          /\ GetSession(id) => sessions' = sessions
          /\ (/\ id \notin DOMAIN sessions
              /\ \/ \E st \in CallStatus : UpdateStatus(id, st)
                 \/ \E r \in Roles, c \in Contents : AddConversationTurn(id, r, c)
                 \/ EndSession(id))
             => (sessions' = sessions /\ returned' = {})]_vars

\* C11 witness: update_status was called with the unknown id c2 while c1 is
\* stored with a turn in its history.
C11_Witness ==
    /\ called = [op |-> "update_status", call_id |-> "c2", known |-> FALSE]
    /\ DOMAIN sessions = {"c1"}
    /\ sessions["c1"].conversation_history # <<>>
    /\ returned = {}

\* C12: end_session on a stored id removes the id and returns its session
\* with ended_at set and a terminal status: a session that was not terminal
\* comes back stamped and completed, a terminal one comes back as it was.
C12_RemoveReturnsEnded ==
    [][\A id \in DOMAIN sessions :
          EndSession(id) =>
              /\ id \notin DOMAIN sessions'
              /\ \E r \in returned' :
                    /\ returned' = {r}
                    /\ r.ended_at # None
                    /\ r.status \in TerminalStatuses
                    /\ IF sessions[id].status \in TerminalStatuses
                       THEN r = sessions[id]
                       ELSE r = [sessions[id] EXCEPT !.ended_at = now,
                                                     !.status = COMPLETED]]_vars

\* C13: the dict get_active_sessions returns is a copy: setting or deleting
\* a key in it leaves the store as it is, and a create_session or
\* end_session on the store leaves the keys of the dict as they are.
C13_ActiveSessionsSnapshot ==
    [][\A id \in CallIds :
          /\ (SnapshotSetItem(id) \/ SnapshotDelItem(id)) => sessions' = sessions
          /\ ((\E k \in CreateKinds : CreateSession(id, k[1], k[2]))
                 \/ EndSession(id)) => snapshot'.keys = snapshot.keys
          /\ GetActiveSessions => snapshot'.keys = DOMAIN sessions]_vars

\* C13 witness: c2 was created after the dict was taken with only c1 in it.
C13_Witness ==
    /\ called = [op |-> "create_session", call_id |-> "c2", known |-> FALSE]
    /\ snapshot.keys = {"c1"}
    /\ DOMAIN sessions = {"c1", "c2"}

(* ==================== interest classification properties =============== *)
\* The label a finished classification of text returned, if p holds one.
Classified(p, text) ==
    h[p].pc = "done" /\ h[p].route = "interest" /\ h[p].speech = text

Label(p) == h[p].resp.body[1]

HasAny(text, keywords) == \E k \in keywords : contains(text, k)

\* C14: the examples of the specification are classified as it says:
\* "Yes, I'm interested" yes, "No, not interested" no, "I'll think about it"
\* maybe, "" no_response, "blah blah" unsure, "yes but not really" yes.
C14_SpecExamples ==
    \A p \in Procs :
        /\ Classified(p, YesImInterested) => Label(p) = YES
        /\ Classified(p, NoNotInterested) => Label(p) = NO
        /\ Classified(p, IllThinkAboutIt) => Label(p) = MAYBE
        /\ Classified(p, Empty) => Label(p) = NO_RESPONSE
        /\ Classified(p, BlahBlah) => Label(p) = UNSURE
        /\ Classified(p, YesButNotReally) => Label(p) = YES

C16_TestTable ==
    \A p \in Procs :
        /\ Classified(p, YesImInterested) \/ Classified(p, DefinitelyYes)
               => Label(p) = YES
        /\ Classified(p, NoNotInterested) \/ Classified(p, AbsolutelyNot)
               => Label(p) = NO
        /\ Classified(p, MaybeLater) \/ Classified(p, IllThinkAboutIt)
               => Label(p) = MAYBE
        /\ Classified(p, ImNotSure) => Label(p) = UNSURE
        /\ Classified(p, Empty) => Label(p) = NO_RESPONSE

(* ====================== outbound call-id properties ==================== *)
\* C17: when the Vobiz API answers an initiate request (notification or
\* marketing) with a map that has no CallSid but a value under another of
\* the synonym fields, the endpoint takes the first non-empty field in the
\* fixed order as the call id and stores an outbound session under it.
C17_InitiateCallIdSynonyms ==
    [][\A p \in Procs, m \in PlatformMaps(LiveIds) :
          (/\ InitiateCallReturns(p, FALSE, m)
           /\ m["CallSid"] = ""
           /\ \E f \in Fields : m[f] # "") =>
              LET v == first_of(m, notification_initiate_fields)
              IN  /\ h'[p].call_id = v
                  /\ v \in DOMAIN sessions'
                  /\ sessions'[v].direction = OUTBOUND]_vars

(* ======================== XML builder properties ======================= *)
unescape_char(c) ==
    CASE c = "&amp;" -> "&" [] c = "&lt;" -> "<" [] c = "&gt;" -> ">"
      [] c = "&quot;" -> "\"" [] c = "&#13;" -> "\r" [] c = "&#10;" -> "\n"
      [] c = "&#09;" -> "\t" [] OTHER -> c
unescape(text) == [i \in DOMAIN text |-> unescape_char(text[i])]

Leaf(tag, text) == [tag |-> tag, text |-> text]

RECURSIVE Read(_, _, _, _)
\* Reading a serialised document back, piece by piece from piece i, with
\* `depth` elements open: nodes collects the children of the root, each with
\* its tag, its text and its own child elements (tag and text).
Read(ts, i, depth, nodes) ==
    IF i > Len(ts) THEN nodes
    ELSE LET t == ts[i]
             n == Len(nodes)
             inner == IF t.k = "open" THEN depth + 1 ELSE depth
         IN  CASE t.k = "close" -> Read(ts, i + 1, depth - 1, nodes)
               [] t.k \in {"open", "empty"} /\ depth = 1 ->
                     Read(ts, i + 1, inner,
                          Append(nodes, [tag |-> t.tag, text |-> <<>>,
                                         kids |-> <<>>]))
               [] t.k \in {"open", "empty"} /\ depth = 2 ->
                     Read(ts, i + 1, inner,
                          [nodes EXCEPT ![n].kids = Append(@, Leaf(t.tag, <<>>))])
               [] t.k = "text" /\ depth = 2 ->
                     Read(ts, i + 1, depth,
                          [nodes EXCEPT ![n].text = @ \o unescape(t.s)])
               [] t.k = "text" /\ depth = 3 ->
                     Read(ts, i + 1, depth,
                          [nodes EXCEPT ![n].kids[Len(nodes[n].kids)].text =
                                            @ \o unescape(t.s)])
               [] OTHER -> Read(ts, i + 1, inner, nodes)

\* The children of the root of a built document, in document order.
TopLevel(ts) == Read(ts, 3, 0, <<>>)

\* Tag and text of each of them.
Flat(nodes) == [n \in DOMAIN nodes |-> Leaf(nodes[n].tag, nodes[n].text)]

\* Characters of the builder's arguments that XML 1.0 allows nowhere in a
\* document.
ForbiddenChars == {"\f"}

RECURSIVE Balanced(_, _, _)
\* From piece i on, with the tags in `open` still open: tags nest and match,
\* character data lies inside an element, and one element holds all the rest.
Balanced(ts, i, open) ==
    IF i > Len(ts) THEN open = <<>>
    ELSE CASE ts[i].k = "open" ->
                 (open # <<>> \/ i = 3) /\ Balanced(ts, i + 1, Append(open, ts[i].tag))
           [] ts[i].k = "empty" ->
                 (open # <<>> \/ (i = 3 /\ Len(ts) = 3)) /\ Balanced(ts, i + 1, open)
           [] ts[i].k = "text" ->
                 open # <<>> /\ Balanced(ts, i + 1, open)
           [] ts[i].k = "close" ->
                 /\ open # <<>> /\ open[Len(open)] = ts[i].tag
                 /\ (Len(open) > 1 \/ i = Len(ts))
                 /\ Balanced(ts, i + 1, SubSeq(open, 1, Len(open) - 1))
           [] OTHER -> FALSE

\* A well-formed XML document: the declaration, then a single root element
\* with matching tags, unique attribute names, no raw markup character in
\* character data or attribute values, and no forbidden character.
WellFormed(ts) ==
    /\ Len(ts) >= 3
    /\ ts[1].k = "decl" /\ ts[1].s = <<"<?xml version=\"1.0\" encoding=\"UTF-8\"?>">>
    /\ ts[2].k = "space"
    /\ Balanced(ts, 3, <<>>)
    /\ \A i \in 3..Len(ts) :
          /\ \A n \in DOMAIN ts[i].s : ts[i].s[n] \notin {"<", "&"} \cup ForbiddenChars
          /\ \A a, b \in DOMAIN ts[i].attrs :
                ts[i].attrs[a][1] = ts[i].attrs[b][1] => a = b
          /\ \A a \in DOMAIN ts[i].attrs :
                \A n \in DOMAIN ts[i].attrs[a][2] :
                    ts[i].attrs[a][2][n] \notin {"<", "&", "\""} \cup ForbiddenChars

\* C18: build() leaves the builder as it is and returns a well-formed
\* document that starts with the declaration and has a single root, whatever
\* calls were made before it (none included); a second build() right after
\* returns the same document.
C18_BuildWellFormed ==
    [][Build =>
          /\ builder' = builder
          /\ WellFormed(built')
          /\ called.op = "build" => built' = built]_vars

\* The step added node, and nothing else, at the end of the root's children.
Added(node) ==
    Flat(TopLevel(build_text(builder'))) =
        Append(Flat(TopLevel(build_text(builder))), node)

\* C19: each builder call adds exactly one element at the end of the root's
\* children of the built document: say a Say with its text, play a Play with
\* its URL, gather and gather_with_prompt a Gather, record a Record, redirect
\* a Redirect with its URL, hangup a Hangup, pause a Pause.
C19_OneDirectivePerCall ==
    [][/\ \A t \in BuilderTexts : Say(t) => Added(Leaf("Say", t))
       /\ \A u \in BuilderUrls :
             /\ Play(u) => Added(Leaf("Play", u))
             /\ Gather(u) => Added(Leaf("Gather", <<>>))
             /\ Record(u) => Added(Leaf("Record", <<>>))
             /\ Redirect(u) => Added(Leaf("Redirect", u))
             /\ \A t \in BuilderTexts :
                   GatherWithPrompt(t, u) => Added(Leaf("Gather", <<>>))
       /\ Hangup => Added(Leaf("Hangup", <<>>))
       /\ Pause => Added(Leaf("Pause", <<>>))]_vars

\* C19 witness: say("Hello") then hangup() was built: one Say holding
\* "Hello", then one empty Hangup element.
C19_Witness ==
    /\ called.op = "build"
    /\ TopLevel(built) =
          <<[tag |-> "Say", text |-> <<"H", "e", "l", "l", "o">>, kids |-> <<>>],
            [tag |-> "Hangup", text |-> <<>>, kids |-> <<>>]>>
    /\ built[Len(built) - 1] = Token("empty", "Hangup", <<>>, <<>>)

\* The step added, at the end of the root's children, one element with the
\* given tag and child elements.
AddedWithKids(tag, kids) ==
    LET after == TopLevel(build_text(builder'))
    IN  /\ Len(after) = Len(TopLevel(build_text(builder))) + 1
        /\ after[Len(after)].tag = tag
        /\ after[Len(after)].kids = kids

\* C20: gather_with_prompt adds one Gather whose only child is a Say with
\* the prompt, and no Say next to it; gather adds a Gather without children;
\* no other call adds an element that has child elements.
C20_PromptNestedInGather ==
    [][/\ \A t \in BuilderTexts, u \in BuilderUrls :
             GatherWithPrompt(t, u) => AddedWithKids("Gather", <<Leaf("Say", t)>>)
       /\ \A u \in BuilderUrls :
             /\ Gather(u) => AddedWithKids("Gather", <<>>)
             /\ Play(u) => AddedWithKids("Play", <<>>)
             /\ Record(u) => AddedWithKids("Record", <<>>)
             /\ Redirect(u) => AddedWithKids("Redirect", <<>>)
       /\ \A t \in BuilderTexts : Say(t) => AddedWithKids("Say", <<>>)
       /\ Hangup => AddedWithKids("Hangup", <<>>)
       /\ Pause => AddedWithKids("Pause", <<>>)]_vars

\* C20 witness: a prompted Gather followed by a Hangup was built; the
\* prompt is the Gather's only child and the root has no Say child.
C20_Witness ==
    /\ called.op = "build"
    /\ TopLevel(built) =
          <<[tag |-> "Gather", text |-> <<>>,
             kids |-> <<Leaf("Say", <<"H", "e", "l", "l", "o">>)>>],
            [tag |-> "Hangup", text |-> <<>>, kids |-> <<>>]>>

(* ------------------- every webhook that answers in XML ------------------ *)
\* The messages of the three routes of api/telephony.py that are not
\* implemented yet: /outgoing, /notification and /marketing.
PlaceholderMessages ==
    {<<"Outgoing calls not yet supported.">>,
     <<"Notification calls not yet supported.">>,
     <<"Marketing calls not yet supported.">>}

\* handle_outgoing_call, handle_notification_call and handle_marketing_call
\* of api/telephony.py: the request is not read, the error document is
\* returned.
HandlePlaceholder(p, message) ==
    /\ Ready(p)
    /\ h' = [h EXCEPT ![p] =
               Finished("placeholder", "none",
                        XmlResponse(create_error_response(message)))]
    /\ UNCHANGED <<sessions, returned, called, now, cache, file_bytes, sink>>
    /\ UNCHANGED <<snapshot, builder, built>>

\* The workers that serve the webhooks.
WebhookWorkers == {"p1"}

\* All the webhooks of api/telephony.py and api/outbound.py that answer the
\* platform with a document, with the endpoint that creates outbound sessions.
WebhooksNext ==
    \/ \E p \in WebhookWorkers, id \in LiveIds : HandleIncomingCall(p, id)
    \/ \E p \in WebhookWorkers, id \in CallIds, sp \in Speeches, d \in DigitInputs :
           /\ id \in DOMAIN sessions => Room(id, GatherTurns(sp, d))
           /\ HandleGatherResponse(p, id, sp, d)
    \/ \E p \in WebhookWorkers, message \in PlaceholderMessages : HandlePlaceholder(p, message)
    \/ \E p \in WebhookWorkers, ty \in {NOTIFICATION, MARKETING} : InitiateCall(p, ty)
    \/ \E p \in WebhookWorkers, raised \in BOOLEAN, m \in PlatformMaps(LiveIds) :
           InitiateCallReturns(p, raised, m)
    \/ \E p \in WebhookWorkers, m \in PlatformMaps(CallIds) : HandleNotificationCall(p, m)
    \/ \E p \in WebhookWorkers, m \in PlatformMaps(CallIds) : HandleMarketingCall(p, m)
    \/ \E p \in WebhookWorkers, id \in CallIds, sp \in Speeches :
           HandleMarketingGather(p, id, sp)
    \/ \E p \in WebhookWorkers, raised \in BOOLEAN, r \in Replies : AgentReturns(p, raised, r)
    \/ \E p \in WebhookWorkers, o \in SaveOutcomes, n \in OneSecond :
           SaveReturns(p, o, n)

SpecWebhooks == Init /\ [][WebhooksNext]_vars

\* The callbacks that carry call id `id`.
CallbacksOf(id) == {gather_callback_url(id), marketing_callback_url(id)}

\* The target of a directive: the action attribute of a Gather, the text of a
\* Redirect.
Target(d) ==
    IF d.tag = "Redirect" THEN d.text
    ELSE LET i == CHOOSE i \in DOMAIN d.attrs : d.attrs[i][1] = "action"
         IN  d.attrs[i][2]

\* The call is not left hanging by document xml answered for call id `id`.
NotLeftHanging(xml, id) ==
    LET ds == Directives(xml)
    IN  \/ ds # <<>> /\ ds[Len(ds)].tag = "Hangup"
        \/ \E i \in DOMAIN ds :
              /\ ds[i].tag \in {"Gather", "Redirect"}
              /\ Target(ds[i]) \in CallbacksOf(id)

\* C21: every document a webhook handler has returned, on whatever branch,
\* ends with a Hangup directive or holds a Gather or Redirect whose target is
\* a callback carrying the same call id.
C21_NeverLeftHanging ==
    \A p \in Procs :
        (h[p].pc = "done" /\ h[p].resp.kind = "xml")
            => NotLeftHanging(h[p].resp.body, h[p].call_id)

\* A gather webhook has answered with a document that re-opens the Gather on
\* its own call id.
C21_Witness ==
    /\ C21_NeverLeftHanging
    /\ \E p \in Procs :
          /\ h[p].pc = "done" /\ h[p].route = "gather"
          /\ h[p].resp.kind = "xml"
          /\ \E i \in DOMAIN Directives(h[p].resp.body) :
                /\ Directives(h[p].resp.body)[i].tag = "Gather"
                /\ Target(Directives(h[p].resp.body)[i])
                      = gather_callback_url(h[p].call_id)

\* Worker q holds the answer of a finished generate_speech call that names a
\* file of the cache.
ServedFromCache(q) ==
    /\ h[q].route = "speech" /\ h[q].pc = "done"
    /\ h[q].audio \in {cached_file(k) : k \in cache}

\* C22: the cache key comes from the sanitized text and the resolved voice:
\* when a request has been answered with a cache entry, a request whose raw
\* text sanitizes to the same text and whose language resolves to the same
\* voice (an unmapped language resolves to the neutral voice) is answered at
\* once with the same entry, without calling the synthesizer and without
\* touching the cache.
C22_SameSpokenFormSameEntry ==
    [][\A p, q \in Procs, t \in RawTexts, l \in Languages :
          (/\ q # p
           /\ ServedFromCache(q)
           /\ h'[p].raw = t /\ h'[p].language = l
           /\ get_voice_for_language(h[q].language) = get_voice_for_language(l)
           /\ sanitize_text_for_tts(h[q].raw) = sanitize_text_for_tts(t)
           /\ GenerateSpeech(p, t, l))
          => /\ h'[p].pc = "done"
             /\ h'[p].audio = h[q].audio
             /\ cache' = cache]_vars

\* Two finished requests with different raw texts and different languages,
\* one of them unmapped, hold the same cache entry; one went through the
\* synthesizer and the other did not.
C22_Witness ==
    \E p, q \in Procs :
        /\ ServedFromCache(p) /\ ServedFromCache(q)
        /\ h[p].raw # h[q].raw
        /\ h[q].language = "en-IN" /\ h[p].language = "hi-IN"
        /\ h[p].audio = h[q].audio
        /\ h[q].stage = "speech" /\ h[p].stage = "none"

\* C23: generate_speech returns None when the synthesizer fails, when no file
\* backs the audio, and when the audio lies outside the telephony window;
\* every reference it has returned names a file of the cache whose size
\* validate_telephony_audio accepts.
C23_ReferenceBackedAndInWindow ==
    \A p \in Procs :
        (h[p].route = "speech" /\ h[p].pc = "done" /\ h[p].audio # NoAudio)
            => \E k \in cache :
                  /\ h[p].audio = cached_file(k)
                  /\ validate_telephony_audio(file_bytes[k])

(* ------------------ _sanitize_text_for_tts on its own ------------------ *)
\* Texts handed to the sanitizer: the three of test_speech.py with the outputs
\* the test expects, an entry twice, padded, entries sharing a letter, the
\* rupee sign, text without entries, the rest of the table.
YourOtpIs ==
    <<"Y", "o", "u", "r", " ", "O", "T", "P", " ", "i", "s", " ", "1", "2",
      "3", "4", "5", "6">>
YourOtpIsSpoken ==
    <<"Y", "o", "u", "r", " ", "O", " ", "T", " ", "P", " ", "i", "s", " ",
      "1", "2", "3", "4", "5", "6">>
PayRs ==
    <<"P", "a", "y", " ", "R", "s", ".", " ", "5", "0", "0", " ", "v", "i",
      "a", " ", "U", "P", "I">>
PayRsSpoken ==
    <<"P", "a", "y", " ", "R", "u", "p", "e", "e", "s", " ", "5", "0", "0",
      " ", "v", "i", "a", " ", "U", " ", "P", " ", "I">>
CompleteYourKyc ==
    <<"C", "o", "m", "p", "l", "e", "t", "e", " ", "y", "o", "u", "r", " ",
      "K", "Y", "C", " ", "&", " ", "P", "A", "N", " ", "v", "e", "r", "i",
      "f", "i", "c", "a", "t", "i", "o", "n">>
CompleteYourKycSpoken ==
    <<"C", "o", "m", "p", "l", "e", "t", "e", " ", "y", "o", "u", "r", " ",
      "K", " ", "Y", " ", "C", " ", "a", "n", "d", " ", "P", " ", "A", " ",
      "N", " ", "v", "e", "r", "i", "f", "i", "c", "a", "t", "i", "o", "n">>
OtpTwice ==
    <<"O", "T", "P", " ", "O", "T", "P">>
OtpTwiceSpoken ==
    <<"O", " ", "T", " ", "P", " ", "O", " ", "T", " ", "P">>
OtpPadded ==
    <<" ", "O", "T", "P", " ">>
OtpPan ==
    <<"O", "T", "P", "A", "N">>
RtgsGst ==
    <<"R", "T", "G", "S", "T">>
RupeeFive ==
    <<"<rupee>", "5">>
Plain ==
    <<"p", "l", "a", "i", "n">>
TransferCodes ==
    <<"N", "E", "F", "T", " ", "R", "T", "G", "S", " ", "I", "F", "S", "C",
      " ", "G", "S", "T">>
OtpSpoken ==
    <<"O", " ", "T", " ", "P">>
SanitizeTexts ==
    {YourOtpIs, PayRs, CompleteYourKyc, OtpTwice, OtpPadded, OtpPan, RtgsGst,
     RupeeFive, Plain, TransferCodes, OtpSpoken, <<>>, <<" ">>}

\* A worker sanitizes one text: SpeechProcessor._sanitize_text_for_tts(text).
SanitizeText(p, text) ==
    /\ Ready(p)
    /\ h' = [h EXCEPT ![p] =
               [Finished("sanitize", "none",
                         Returned(sanitize_text_for_tts(text)))
                   EXCEPT !.raw = text]]
    /\ UNCHANGED <<sessions, returned, called, now, cache, file_bytes, sink,
                   snapshot, builder, built>>

SanitizeNext == \E p \in Procs, text \in SanitizeTexts : SanitizeText(p, text)

SpecSanitize == Init /\ [][SanitizeNext]_vars

\* The abbreviations and symbols of the table.
Entries == {replacements[i][1] : i \in DOMAIN replacements}

\* The entry found at the head of s, as an index of the table, or 0.
entry_at(s) ==
    IF \E i \in DOMAIN replacements :
           /\ Len(replacements[i][1]) <= Len(s)
           /\ SubSeq(s, 1, Len(replacements[i][1])) = replacements[i][1]
    THEN CHOOSE i \in DOMAIN replacements :
           /\ Len(replacements[i][1]) <= Len(s)
           /\ SubSeq(s, 1, Len(replacements[i][1])) = replacements[i][1]
    ELSE 0

\* s read once from left to right: every entry met is replaced by its
\* expansion, every other character is kept.
RECURSIVE Expand(_)
Expand(s) ==
    IF s = <<>> THEN <<>>
    ELSE IF entry_at(s) = 0 THEN <<Head(s)>> \o Expand(Tail(s))
    ELSE replacements[entry_at(s)][2]
            \o Expand(SubSeq(s, Len(replacements[entry_at(s)][1]) + 1, Len(s)))

\* Positions i..j of s that hold an entry.
Occurrences(s) ==
    {ij \in (DOMAIN s) \X (DOMAIN s) : SubSeq(s, ij[1], ij[2]) \in Entries}

\* Two entries of s share a character.
Overlapping(s) ==
    \E a, b \in Occurrences(s) : a # b /\ a[1] <= b[1] /\ b[1] <= a[2]

\* The text a finished sanitizer call returned.
Sanitized(p) == h[p].resp.body[1]

\* C24 (amended): the sanitizer trims the surrounding blanks and then replaces
\* the entries of the table: its output holds no entry of the table, so
\* sanitizing the output again changes nothing; when no two entries of the
\* trimmed text share a character, every entry is replaced by its expansion
\* and every other character is kept; the three texts of test_speech.py
\* give the outputs the test expects.
C24_SanitizeExpandsTable ==
    \A p \in Procs :
        (h[p].route = "sanitize" /\ h[p].pc = "done")
            => /\ \A e \in Entries : ~contains(Sanitized(p), e)
               /\ sanitize_text_for_tts(Sanitized(p)) = Sanitized(p)
               /\ ~Overlapping(strip(h[p].raw))
                     => Sanitized(p) = Expand(strip(h[p].raw))
               /\ h[p].raw = YourOtpIs => Sanitized(p) = YourOtpIsSpoken
               /\ h[p].raw = PayRs => Sanitized(p) = PayRsSpoken
               /\ h[p].raw = CompleteYourKyc => Sanitized(p) = CompleteYourKycSpoken

\* A text holding the same entry twice has been sanitized, and a padded one.
C24_Witness ==
    \E p, q \in Procs :
        /\ h[p].route = "sanitize" /\ h[p].pc = "done"
        /\ h[p].raw = OtpTwice /\ Sanitized(p) = OtpTwiceSpoken
        /\ h[q].route = "sanitize" /\ h[q].pc = "done"
        /\ h[q].raw = OtpPadded /\ Sanitized(q) = OtpSpoken

\* C24 as stated: every occurrence of every entry is replaced by its
\* expansion and all other text is left unchanged.
C24_AllOtherTextUnchanged ==
    \A p \in Procs :
        (h[p].route = "sanitize" /\ h[p].pc = "done")
            => Sanitized(p) = Expand(h[p].raw)

\* C25: when the incoming webhook has completed, the store holds a session
\* under its call id with direction inbound, call type general, status
\* in_progress and answered_at set.
C25_IncomingSessionInProgress ==
    [][\A p \in Procs, id \in LiveIds :
          HandleIncomingCall(p, id)
          => /\ id \in DOMAIN sessions'
             /\ sessions'[id].direction = INBOUND
             /\ sessions'[id].call_type = GENERAL
             /\ sessions'[id].status = IN_PROGRESS
             /\ sessions'[id].answered_at # None]_vars

\* C26: the incoming webhook always answers with a greeting document that
\* opens a Gather on the gather callback of its call id; it never answers
\* with a document that hangs up.
C26_IncomingOpensGather ==
    \A p \in Procs :
        (h[p].route = "incoming" /\ h[p].pc = "done")
            => /\ h[p].resp.kind = "xml"
               /\ \E i \in DOMAIN Directives(h[p].resp.body) :
                     /\ Directives(h[p].resp.body)[i].tag = "Gather"
                     /\ Target(Directives(h[p].resp.body)[i])
                           = gather_callback_url(h[p].call_id)
               /\ "Hangup" \notin Tags(h[p].resp.body)

DeliversAndGathers(resp, id, reply) ==
    /\ resp.kind = "xml"
    /\ LET ds == Directives(resp.body)
       IN  /\ ds # <<>>
           /\ \/ ds[1].tag = "Play"
              \/ ds[1].tag = "Say" /\ ds[1].text = reply
           /\ \E i \in DOMAIN ds :
                 /\ ds[i].tag = "Gather"
                 /\ Target(ds[i]) = gather_callback_url(id)

\* C28: a gather webhook with speech for a stored session, once the agent has
\* returned the reply, answers with a document that delivers the reply and
\* re-opens the Gather on the gather callback of the same call id, whether
\* the reply could be synthesized or not.
C28_SpeechRepliesAndGathers ==
    [][\A p \in Procs :
          /\ \A r \in Replies :
                (AgentReturns(p, FALSE, r) /\ h[p].route = "gather"
                    /\ h'[p].pc = "done")
                => DeliversAndGathers(h'[p].resp, h[p].call_id, r)
          /\ \A o \in SaveOutcomes, n \in OneSecond :
                (SaveReturns(p, o, n) /\ h[p].route = "gather"
                    /\ h'[p].pc = "done")
                => DeliversAndGathers(h'[p].resp, h[p].call_id, h[p].reply)]_vars

\* The document ends the call: its last directive is Hangup and it opens no
\* Gather.
EndsCall(resp) ==
    /\ resp.kind = "xml"
    /\ Directives(resp.body) # <<>>
    /\ Directives(resp.body)[Len(Directives(resp.body))].tag = "Hangup"
    /\ "Gather" \notin Tags(resp.body)

\* C29: a gather webhook with digits and no speech for a stored session
\* appends one user turn holding the digits and marked dtmf, nothing else,
\* returns at once (neither the agent nor the synthesizer is awaited, the
\* cache is left alone) with an acknowledgment that ends with Hangup and has
\* no Gather; with neither speech nor digits it appends nothing and returns
\* the goodbye document, which ends with Hangup.
C29_DigitsAndEmptyEndTheCall ==
    [][\A p \in Procs, id \in DOMAIN sessions :
          /\ \A d \in DigitInputs \ {<<>>} :
                HandleGatherResponse(p, id, <<>>, d) =>
                    /\ sessions' =
                         [sessions EXCEPT ![id].conversation_history =
                             Append(@, Turn("user", d, "dtmf"))]
                    /\ h'[p].pc = "done"
                    /\ cache' = cache
                    /\ EndsCall(h'[p].resp)
                    /\ Directives(h'[p].resp.body)[1].text
                          = <<"You pressed ">> \o d \o <<".">>
          /\ HandleGatherResponse(p, id, <<>>, <<>>) =>
                /\ sessions' = sessions
                /\ h'[p].pc = "done"
                /\ cache' = cache
                /\ EndsCall(h'[p].resp)
                /\ Directives(h'[p].resp.body)[1].text
                      = <<"I didn't receive any input. Goodbye.">>]_vars

\* A keypad webhook has been answered for c1: the history is its one dtmf
\* turn and the document ends with Hangup.
C29_Witness ==
    /\ "c1" \in DOMAIN sessions
    /\ sessions["c1"].conversation_history = <<Turn("user", <<"1">>, "dtmf")>>
    /\ \E p \in Procs :
          /\ h[p].pc = "done" /\ h[p].route = "gather" /\ h[p].call_id = "c1"
          /\ EndsCall(h[p].resp)
          /\ Tags(h[p].resp.body) = {"Say", "Hangup"}
          /\ Directives(h[p].resp.body)[1].text = <<"You pressed ", "1", ".">>

\* Platform statuses that status_mapping maps to COMPLETED, FAILED, BUSY or
\* NO_ANSWER.
TerminalPlatformStatuses == {"completed", "failed", "busy", "no-answer"}

\* C30: when the events webhook has handled a platform status that maps to a
\* terminal status for a stored call id, the session is no longer in the
\* store and the handler has returned its acknowledgment.
C30_TerminalEventRemovesSession ==
    [][\A p \in Procs, id \in DOMAIN sessions,
          st \in PlatformStatuses \cap TerminalPlatformStatuses :
          HandleCallEvents(p, id, st)
          => /\ id \notin DOMAIN sessions'
             /\ h'[p].resp = JsonResponse(<<"received">>)]_vars

(* ===================== status events and status order ================== *)
\* C31: the events webhook with a platform status outside the lookup table
\* returns its acknowledgment and leaves every session of the store as it
\* is; for an unknown call id it creates no session.
C31_UnmappedStatusIgnored ==
    [][\A p \in Procs, id \in CallIds,
          st \in PlatformStatuses \ {"initiated", "ringing", "in-progress",
                                     "completed", "failed", "busy", "no-answer"} :
          HandleCallEvents(p, id, st)
          => /\ h'[p].resp = JsonResponse(<<"received">>)
             /\ sessions' = sessions]_vars

\* The place of a status in initiated < ringing < in_progress < terminal.
Rank(status) ==
    CASE status = INITIATED -> 1
      [] status = RINGING -> 2
      [] status = IN_PROGRESS -> 3
      [] OTHER -> 4

Shape(resp) ==
    [i \in DOMAIN Directives(resp.body) |-> Directives(resp.body)[i].tag]

\* The text of directive i of a document.
TextOf(resp, i) == Directives(resp.body)[i].text

\* The form that carries call_sid under CallSid and nothing else.  A webhook
\* handler uses of its form only the call id it extracts, so its step on
\* any form is also its step on Carrying(that id).
Carrying(call_sid) == [f \in Fields |-> IF f = "CallSid" THEN call_sid ELSE ""]

C36_PayloadMatchesCallType ==
    \A id \in DOMAIN sessions :
        LET s == sessions[id]
        IN  /\ s.call_type \in {MARKETING, NOTIFICATION, GENERAL}
            /\ s.call_type = MARKETING =>
                  s.campaign_metadata = HasMeta /\ s.notification_metadata = NoMeta
            /\ s.call_type = NOTIFICATION =>
                  s.notification_metadata = HasMeta /\ s.campaign_metadata = NoMeta
            /\ s.call_type = GENERAL =>
                  s.campaign_metadata = NoMeta /\ s.notification_metadata = NoMeta

\* C36 witness: the marketing session c1 holds its campaign metadata while
\* one handler, suspended on the agent, has read it and another is suspended
\* on the Vobiz API about to create a session.
C36_Witness ==
    /\ "c1" \in DOMAIN sessions
    /\ sessions["c1"].call_type = MARKETING
    /\ sessions["c1"].direction = OUTBOUND
    /\ sessions["c1"].campaign_metadata = HasMeta
    /\ \E p, q \in Procs :
          /\ h[p].pc = "policy" /\ h[p].route = "marketing" /\ h[p].call_id = "c1"
          /\ h[q].pc = "transport" /\ h[q].route = "initiate_notification"

(* ------------------------ the initiate endpoints ------------------------ *)
\* C37: when the Vobiz API raises, or its answer holds no non-empty value
\* under any of the six call id fields, an initiate endpoint leaves the store
\* as it is and its answer does not hold "initiated" with a non-empty call
\* id (a raise is answered with HTTP 500); whenever an initiate endpoint
\* changes the store, the API has answered and the stored id is a value of
\* the answer.
C37_SessionOnlyForIdentifiedCall ==
    [][\A p \in Procs :
          (h[p].pc = "transport" /\ h'[p].pc = "done") =>
             \A raised \in BOOLEAN, m \in PlatformMaps(LiveIds) :
                InitiateCallReturns(p, raised, m) =>
                   /\ (raised \/ \A f \in Fields : m[f] = "") =>
                         /\ sessions' = sessions
                         /\ ~(/\ h'[p].resp.kind = "json"
                              /\ h'[p].resp.body[1] = "initiated"
                              /\ h'[p].resp.body[2] # "")
                   /\ raised => h'[p].resp = HTTPException(500)
                   /\ sessions' # sessions =>
                         /\ ~raised
                         /\ \E f \in Fields :
                               /\ m[f] # ""
                               /\ DOMAIN sessions' = DOMAIN sessions \cup {m[f]}
                               /\ h'[p].resp = JsonResponse(<<"initiated", m[f]>>)]_vars

\* C37 witness: one initiate endpoint failed on the Vobiz API and answered
\* 500, the other got an answer without a call id and answered "initiated"
\* with no call id; no session is stored.
C37_Witness ==
    /\ sessions = << >>
    /\ \E p, q \in Procs :
          /\ h[p].pc = "done" /\ h[p].route = "initiate_notification"
          /\ h[p].resp = HTTPException(500)
          /\ h[q].pc = "done" /\ h[q].route = "initiate_marketing"
          /\ h[q].resp = JsonResponse(<<"initiated", "">>)

(* ------------------ a speech webhook delivered twice -------------------- *)
\* C38: when the agent returns its reply to a speech gather webhook whose
\* call is stored with a history that is not empty, the last turn of the
\* history is the user turn of that webhook and the assistant turn is
\* appended right after it, so that every assistant turn directly follows
\* the user turn it answers, also when another speech webhook for the same
\* call id was handled in between.
C38_RedeliveredSpeechPaired ==
    [][\A p \in Procs :
          (h[p].pc = "policy" /\ h[p].route = "gather"
              /\ h[p].call_id \in DOMAIN sessions
              /\ sessions[h[p].call_id].conversation_history # <<>>) =>
             \A r \in Replies :
                AgentReturns(p, FALSE, r) =>
                   LET old == sessions[h[p].call_id].conversation_history
                       new == sessions'[h[p].call_id].conversation_history
                   IN  /\ old[Len(old)] = Turn("user", h[p].speech, "speech")
                       /\ new = Append(old, Turn("assistant", r, "none"))]_vars

\* Both deliveries of the speech webhook for c1 have been answered and the
\* history of c1 is user, user, assistant, assistant.
C38_Interleaved ==
    /\ "c1" \in DOMAIN sessions
    /\ LET log == sessions["c1"].conversation_history
       IN  /\ Len(log) = 4
           /\ log[1].role = "user" /\ log[2].role = "user"
           /\ log[3].role = "assistant" /\ log[4].role = "assistant"
    /\ \A p \in Procs : h[p].pc = "done" /\ h[p].route = "gather"

(* ------------- the call id fields of initiate and of answered ----------- *)
\* C39: for every call id field f of the notification initiate endpoint, an
\* answered webhook that carries under f the id of a stored notification
\* session finds that session: it moves it to in_progress and goes on to the
\* agent for the stored message, it does not answer with the fallback
\* message.
C39_AnsweredFindsInitiatedSession ==
    [][\A p \in Procs, id \in DOMAIN sessions :
          (Ready(p) /\ h'[p].route = "notification"
              /\ sessions[id].call_type = NOTIFICATION
              /\ sessions[id].notification_metadata = HasMeta) =>
             \A i \in DOMAIN notification_initiate_fields :
                LET f == notification_initiate_fields[i]
                    form_data == [g \in Fields |-> IF g = f THEN id ELSE ""]
                IN  HandleNotificationCall(p, form_data) =>
                       /\ h'[p].pc = "policy"
                       /\ h'[p].call_id = id
                       /\ sessions'[id].status = IN_PROGRESS]_vars

\* The notification session c1 is stored and an answered webhook was given
\* the fallback message.
C39_FallbackWhileStored ==
    /\ "c1" \in DOMAIN sessions
    /\ sessions["c1"].notification_metadata = HasMeta
    /\ sessions["c1"].status = INITIATED
    /\ \E p \in Procs :
          /\ h[p].pc = "done" /\ h[p].route = "notification" /\ h[p].call_id = ""
          /\ TextOf(h[p].resp, 1) = notification_fallback_message

(* ------------- the marketing gather webhook that cannot go on ----------- *)
\* C40: a marketing gather webhook for a call id that is not stored, or for
\* a stored session without campaign metadata, returns at once a document
\* that ends in a Hangup and has no Gather; no session changes, no turn is
\* appended and no row is handed to the sink.
C40_MarketingGatherFailsClean ==
    [][\A p \in Procs, id \in CallIds :
          (/\ Ready(p) /\ h'[p].route = "marketing_gather"
           /\ \/ id \notin DOMAIN sessions
              \/ sessions[id].campaign_metadata = NoMeta) =>
             \A sp \in Speeches :
                HandleMarketingGather(p, id, sp) =>
                   /\ sessions' = sessions
                   /\ sink' = sink
                   /\ h'[p].pc = "done"
                   /\ EndsCall(h'[p].resp)]_vars

\* C40 witness: the general session c1 is stored with an empty history; the
\* marketing gather webhook for c1 got the default error document, the one
\* for c2, which is not stored, the session-not-found document; the sink
\* holds no row.
C40_Witness ==
    /\ "c1" \in DOMAIN sessions /\ "c2" \notin DOMAIN sessions
    /\ sessions["c1"].call_type = GENERAL
    /\ sessions["c1"].campaign_metadata = NoMeta
    /\ sessions["c1"].conversation_history = <<>>
    /\ sink = <<>>
    /\ \E p, q \in Procs :
          /\ h[p].pc = "done" /\ h[p].route = "marketing_gather"
          /\ h[p].call_id = "c1"
          /\ h[p].resp = XmlResponse(create_error_response(DefaultErrorMessage))
          /\ h[q].pc = "done" /\ h[q].route = "marketing_gather"
          /\ h[q].call_id = "c2"
          /\ h[q].resp = XmlResponse(SessionLost)

====
